---- MODULE Spec2Model ----
(***************************************************************************)
(* State-machine model of the NaOH + CO2 Pitzer pH program                 *)
(* (src/naoh_co2_pitzer_ph_model.py): the pitzer.dat parameter parser, the  *)
(* activity model's coefficient look-ups, the program's main sequence, the  *)
(* total-carbon and fixed-pCO2 equilibrium solvers and the scan-and-bisect  *)
(* root finder.                                                             *)
(*                                                                         *)
(* Text is modelled as token sequences: a line is a record                  *)
(*   [ws |-> leading/trailing blanks present, toks |-> its split() tokens]. *)
(* Coefficient values are integers in units of 1e-4.                        *)
(***************************************************************************)
EXTENDS Integers, Sequences, FiniteSets, TLC

VARIABLES
    lines,      \* the text of pitzer.dat, one record per line
    edits,      \* number of edits applied to the reference table so far
    params,     \* outcome of read_pitzer_params (called = FALSE before it)
    query,      \* last look-up made in the constructed store, both orders
    gcall,      \* last pitzer_gammas call: its molality map and outcome
    fun,        \* the residual handed to the root finder (its sign profile)
    rf,         \* _find_root_bisect_on_log10: position, counters, bracket
    env,        \* what the floating-point arithmetic yields: the iteration at
                \* which the ln(gamma) test first passes, the residual's signs
    sv,         \* a running solver call: inputs, loop counter, comp, gam, result
    sim,        \* a running simulate_mode_* call: ledger, loop counter, rows
    mn,         \* main: position, arguments, what was computed and printed
    aq,         \* a call of solve_closed_carbonate_system: inputs, bracket, result
    gui,        \* the plotting program: the refresh being routed
    ui          \* the plotting program: a plot tab, its geometry wait and the Tk callbacks

parseVars == <<lines, edits, params, query, gcall>>
rootVars == <<fun, rf>>
solveVars == <<env, sv>>
simVars == <<sim, mn>>
otherVars == <<aq, gui, ui>>
vars == <<lines, edits, params, query, gcall, fun, rf, env, sv, sim, mn, aq, gui, ui>>

----------------------------------------------------------------------------
(* Bounds of the model *)

MaxEdits == 1         \* edits of the reference table before it is read
MaxMolality == 2      \* largest molality of a map, in units of 1e-30 mol/kg
GridPerInterval == 8  \* representable log10[H+] values per scan interval
MaxNa == 4            \* largest total sodium NaT_m of a solver call
MaxCT == 5            \* largest total carbon CT_m requested of the solver
MaxCycles == 3        \* largest --cycles
MaxDP == 2            \* largest pressure drop per cycle, in units of one CT_m step
MaxTotal == 2         \* largest --total-co2-g, in units of one CT_m step
MaxRows == 4          \* rows after which an absorbed-mode run is no longer followed
AqWidth == 16         \* width of the pH bracket, in units of half its 1e-6 tolerance
MaxRequests == 2      \* refresh requests made on a plot tab from outside
MaxKH == 2            \* Henry's-law constants a configuration can carry

----------------------------------------------------------------------------
(* Tokens *)

Min(S) == CHOOSE x \in S : \A y \in S : x <= y
Max(S) == CHOOSE x \in S : \A y \in S : x >= y

\* str.startswith("-") and str.startswith("#") on the token alphabet
DashTokens == {"-B0", "-B1", "-B2", "-C0", "-THETA", "-LAMBDA", "-PSI", "-0.017"}
HashTokens == {"#", "#HMW"}
StartsWithDash(t) == t \in DashTokens
StartsWithHash(t) == t \in HashTokens

\* x.replace("E", "e") on the token alphabet
ReplaceE(t) == IF t = "7.00E-04" THEN "7.00e-04" ELSE t

\* float(): the tokens Python accepts as numbers, with their values (1e-4)
FloatTable ==
    [t \in {"0.0864", "0.0277", "0.0399", "0.253", "0.0411", "1.389",
            "0.0044", "0.1", "-0.017", "0.002", "7.00e-04", "0", "0.5"} |->
        CASE t = "0.0864"   -> 864
          [] t = "0.0277"   -> 277
          [] t = "0.0399"   -> 399
          [] t = "0.253"    -> 2530
          [] t = "0.0411"   -> 411
          [] t = "1.389"    -> 13890
          [] t = "0.0044"   -> 44
          [] t = "0.1"      -> 1000
          [] t = "-0.017"   -> -170
          [] t = "0.002"    -> 20
          [] t = "7.00e-04" -> 7
          [] t = "0"        -> 0
          [] t = "0.5"      -> 5000]

FloatOk(t) == t \in DOMAIN FloatTable
Float(t) == FloatTable[t]

None == [some |-> FALSE, v |-> 0]
Some(x) == [some |-> TRUE, v |-> x]

----------------------------------------------------------------------------
(* Parsing helpers *)

is_marker(l) == l.toks # <<>> /\ StartsWithDash(l.toks[1])

\* number of leading tokens float() accepts: the loop breaks at the first
\* token that raises
RECURSIVE NumericPrefixLen(_)
NumericPrefixLen(parts) ==
    IF parts = <<>> \/ ~FloatOk(ReplaceE(Head(parts)))
    THEN 0
    ELSE 1 + NumericPrefixLen(Tail(parts))

parse_numeric_fields(parts) ==
    [i \in 1..NumericPrefixLen(parts) |-> Float(ReplaceE(parts[i]))]

PitzerLine == [ws |-> FALSE, toks |-> <<"PITZER">>]

\* lines.index("PITZER"), 1-based; 0 when the list has no such element
PitzerStart(ls) ==
    LET S == {i \in 1..Len(ls) : ls[i] = PitzerLine}
    IN  IF S = {} THEN 0 ELSE Min(S)

\* markers[key] for a marker located at or after pitzer_start, 1-based
\* (a later line with the same stripped text overwrites an earlier one);
\* 0 when the key is not in the dict
MarkerIdx(ls, start, key) ==
    LET S == {i \in start..Len(ls) : is_marker(ls[i]) /\ ls[i].toks = <<key>>}
    IN  IF S = {} THEN 0 ELSE Max(S)

MarkerGet(ls, start, key, default) ==
    IF MarkerIdx(ls, start, key) = 0 THEN default ELSE MarkerIdx(ls, start, key)

RequiredMarkers == <<"-B0", "-B1", "-C0", "-THETA", "-PSI">>

MissingMarkers(ls, start) ==
    {k \in 1..Len(RequiredMarkers) : MarkerIdx(ls, start, RequiredMarkers[k]) = 0}

KeepRow(l) ==
    /\ l.toks # <<>>
    /\ ~StartsWithHash(l.toks[1])
    /\ ~StartsWithDash(l.toks[1])

\* parse_block(start_line, end_line) with 1-based first and exclusive end
parse_block(ls, first, end) ==
    LET kept == SelectSeq(SubSeq(ls, first, end - 1), KeepRow)
    IN  [i \in 1..Len(kept) |-> kept[i].toks]

\* end of the PSI block: the first later line that starts the next section
PsiEnd(ls, psi) ==
    LET S == {i \in (psi + 1)..Len(ls) :
                 ls[i].toks # <<>> /\ ls[i].toks[1] = "GAS_BINARY_PARAMETERS"}
    IN  IF S = {} THEN Len(ls) + 1 ELSE Min(S)

\* a variant that takes the last numeric column of a row
LastNum(nums) == nums[Len(nums)]

\* "return nums[0]"
FirstNum(nums) == nums[1]

PairRowMatches(r, a, b) ==
    (r[1] = a /\ r[2] = b) \/ (r[1] = b /\ r[2] = a)

lookup_pair(rows, a, b) ==
    LET S == {i \in 1..Len(rows) :
                 /\ Len(rows[i]) >= 3
                 /\ PairRowMatches(rows[i], a, b)
                 /\ parse_numeric_fields(SubSeq(rows[i], 3, Len(rows[i]))) # <<>>}
    IN  IF S = {} THEN None
        ELSE Some(FirstNum(parse_numeric_fields(
                 SubSeq(rows[Min(S)], 3, Len(rows[Min(S)])))))

lookup_theta(rows, a, b) ==
    LET S == {i \in 1..Len(rows) :
                 /\ Len(rows[i]) >= 3
                 /\ PairRowMatches(rows[i], a, b)
                 /\ parse_numeric_fields(SubSeq(rows[i], 3, Len(rows[i]))) # <<>>}
    IN  IF S = {} THEN None
        ELSE Some(FirstNum(parse_numeric_fields(
                 SubSeq(rows[Min(S)], 3, Len(rows[Min(S)])))))

PsiRowMatches(r, a, b, c) == {r[1], r[2], r[3]} = {a, b, c}

lookup_psi(rows, a, b, c) ==
    LET S == {i \in 1..Len(rows) :
                 /\ Len(rows[i]) >= 4
                 /\ PsiRowMatches(rows[i], a, b, c)
                 /\ parse_numeric_fields(SubSeq(rows[i], 4, Len(rows[i]))) # <<>>}
    IN  IF S = {} THEN None
        ELSE Some(FirstNum(parse_numeric_fields(
                 SubSeq(rows[Min(S)], 4, Len(rows[Min(S)])))))

----------------------------------------------------------------------------
(* The five row blocks of the PITZER section *)

B0Rows(ls, st) ==
    parse_block(ls, MarkerIdx(ls, st, "-B0") + 1,
                MarkerGet(ls, st, "-B1", Len(ls) + 1))
B1Rows(ls, st) ==
    parse_block(ls, MarkerIdx(ls, st, "-B1") + 1,
                MarkerGet(ls, st, "-B2", MarkerIdx(ls, st, "-C0")))
C0Rows(ls, st) ==
    parse_block(ls, MarkerIdx(ls, st, "-C0") + 1, MarkerIdx(ls, st, "-THETA"))
ThetaRows(ls, st) ==
    parse_block(ls, MarkerIdx(ls, st, "-THETA") + 1,
                MarkerGet(ls, st, "-LAMBDA", MarkerIdx(ls, st, "-PSI")))
PsiRows(ls, st) ==
    parse_block(ls, MarkerIdx(ls, st, "-PSI") + 1,
                PsiEnd(ls, MarkerIdx(ls, st, "-PSI")))

----------------------------------------------------------------------------
(* read_pitzer_params *)

\* a variant that does not load the sodium-carbonate pair
pairs_without_carbonate == <<(<<"Na+", "OH-">>), (<<"Na+", "HCO3-">>)>>

pairs == <<(<<"Na+", "OH-">>), (<<"Na+", "HCO3-">>), (<<"Na+", "CO3-2">>)>>
PairKeys == {pairs[i] : i \in 1..Len(pairs)}
ThetaKey == <<"CO3-2", "OH-">>
PsiKey1 == <<"CO3-2", "Na+", "OH-">>
PsiKey2 == <<"CO3-2", "HCO3-", "Na+">>

NoStore ==
    [beta0 |-> <<>>, beta1 |-> <<>>, cphi |-> <<>>, theta |-> <<>>, psi |-> <<>>]

Raise(msg) == [ok |-> FALSE, err |-> msg, store |-> NoStore]

\* a variant that tests B0 only
BinaryOk_B0Only(v0, v1, vc) == v0.some

\* a variant that also demands a C0 value
BinaryOk_NeedC0(v0, v1, vc) == v0.some /\ v1.some /\ vc.some

\* "if v0 is None or v1 is None: raise": the pair passes when neither is None
\* (vc, the C0 value, is not part of the test)
BinaryOk(v0, v1, vc) == v0.some /\ v1.some

\* "0.0 if vc is None else vc"
CphiOf(vc) == IF vc.some THEN vc.v ELSE 0

PitzerParams(ls, st) ==
    [beta0 |-> [k \in PairKeys |-> lookup_pair(B0Rows(ls, st), k[1], k[2]).v],
     beta1 |-> [k \in PairKeys |-> lookup_pair(B1Rows(ls, st), k[1], k[2]).v],
     cphi  |-> [k \in PairKeys |-> CphiOf(lookup_pair(C0Rows(ls, st), k[1], k[2]))],
     theta |-> [k \in {ThetaKey} |->
                   lookup_theta(ThetaRows(ls, st), "CO3-2", "OH-").v],
     psi   |-> [k \in {PsiKey1, PsiKey2} |->
                   lookup_psi(PsiRows(ls, st), k[1], k[2], k[3]).v]]

read_pitzer_params(ls) ==
    LET st == PitzerStart(ls)
        bad == {i \in 1..Len(pairs) :
                   ~BinaryOk(lookup_pair(B0Rows(ls, st), pairs[i][1], pairs[i][2]),
                             lookup_pair(B1Rows(ls, st), pairs[i][1], pairs[i][2]),
                             lookup_pair(C0Rows(ls, st), pairs[i][1], pairs[i][2]))}
    IN  IF st = 0 THEN Raise("Could not find 'PITZER' section")
        ELSE IF MissingMarkers(ls, st) # {}
        THEN Raise("Missing required marker")
        ELSE IF bad # {} THEN Raise("Missing B0/B1 for pair")
        ELSE IF ~lookup_theta(ThetaRows(ls, st), "CO3-2", "OH-").some
        THEN Raise("Missing THETA")
        ELSE IF \/ ~lookup_psi(PsiRows(ls, st), "CO3-2", "Na+", "OH-").some
                \/ ~lookup_psi(PsiRows(ls, st), "CO3-2", "HCO3-", "Na+").some
        THEN Raise("Missing required PSI terms")
        ELSE [ok |-> TRUE, err |-> "", store |-> PitzerParams(ls, st)]

----------------------------------------------------------------------------
(* The reference table: the rows of PHREEQC's pitzer.dat the program reads *)

L(toks) == [ws |-> FALSE, toks |-> toks]

ReferenceTable ==
    << L(<<"PITZER">>),
       L(<<"-B0">>),
       L(<<"Na+", "OH-", "0.0864", "0", "0", "7.00E-04">>),
       L(<<"Na+", "HCO3-", "0.0277">>),
       L(<<"Na+", "CO3-2", "0.0399">>),
       L(<<"-B1">>),
       L(<<"Na+", "OH-", "0.253">>),
       L(<<"Na+", "HCO3-", "0.0411">>),
       L(<<"Na+", "CO3-2", "1.389">>),
       L(<<"-C0">>),
       L(<<"Na+", "OH-", "0.0044">>),
       L(<<"-THETA">>),
       L(<<"CO3-2", "OH-", "0.1">>),
       L(<<"-PSI">>),
       L(<<"CO3-2", "Na+", "OH-", "-0.017">>),
       L(<<"CO3-2", "HCO3-", "Na+", "0.002">>) >>

----------------------------------------------------------------------------
(* Edits of the table: the files the parser is run on *)

ExtraLines ==
    { L(<<"-B2">>), L(<<"-LAMBDA">>), L(<<"GAS_BINARY_PARAMETERS">>),
      L(<<"OH-", "Na+", "0.5">>), L(<<"#", "Na+", "OH-", "0.5">>) }

DeleteLine(ls, i) == SubSeq(ls, 1, i - 1) \o SubSeq(ls, i + 1, Len(ls))

InsertLine(ls, i, l) == SubSeq(ls, 1, i - 1) \o <<l>> \o SubSeq(ls, i, Len(ls))

SwapToks(t, j, k) ==
    [n \in 1..Len(t) |-> IF n = j THEN t[k] ELSE IF n = k THEN t[j] ELSE t[n]]

InsertTok(t, pos, tok) == SubSeq(t, 1, pos - 1) \o <<tok>> \o SubSeq(t, pos, Len(t))

\* number of leading tokens of a row that are not numbers (its labels)
RECURSIVE LabelCount(_)
LabelCount(t) ==
    IF t = <<>> \/ FloatOk(ReplaceE(Head(t))) THEN 0 ELSE 1 + LabelCount(Tail(t))

EditedTables(ls) ==
    {DeleteLine(ls, i) : i \in 1..Len(ls)}
    \cup {[ls EXCEPT ![i].ws = TRUE] :
             i \in {n \in 1..Len(ls) : LabelCount(ls[n].toks) = 1}}
    \cup {[ls EXCEPT ![i].toks = SwapToks(@, 1, k)] :
             i \in {n \in 1..Len(ls) : LabelCount(ls[n].toks) = 3},
             k \in 2..3}
    \cup {[ls EXCEPT ![i].toks = SwapToks(@, 1, 2)] :
             i \in {n \in 1..Len(ls) : LabelCount(ls[n].toks) = 2}}
    \cup {[ls EXCEPT ![i].toks = InsertTok(@, Len(@) + 1, "n/a")] : i \in 1..Len(ls)}
    \cup {[ls EXCEPT ![i].toks = InsertTok(@, LabelCount(@) + 1, "n/a")] :
             i \in {n \in 1..Len(ls) : LabelCount(ls[n].toks) \in {2, 3}}}
    \cup {InsertLine(ls, i + 1, l) :
             i \in {n \in 1..Len(ls) : is_marker(ls[n])} \cup {0, Len(ls)},
             l \in ExtraLines}

NotCalled == [called |-> FALSE, ok |-> FALSE, err |-> "", store |-> NoStore]

EditTable(limit) ==
    /\ ~params.called
    /\ edits < limit
    /\ lines' \in EditedTables(lines) \ {lines}
    /\ edits' = edits + 1
    /\ UNCHANGED <<params, query, gcall>>
    /\ UNCHANGED <<rootVars, solveVars, simVars, otherVars>>

\* params = read_pitzer_params(pitzer_path)
LoadParams ==
    /\ ~params.called
    /\ params' = [called |-> TRUE] @@ read_pitzer_params(lines)
    /\ UNCHANGED <<lines, edits, query, gcall>>
    /\ UNCHANGED <<rootVars, solveVars, simVars, otherVars>>

----------------------------------------------------------------------------
(* Look-ups in the constructed store *)

_pair_key(a, b) == <<a, b>>

KeyError == [err |-> "KeyError", v |-> 0]
Found(x) == [err |-> "", v |-> x]

\* d[key] on a dict: KeyError when the key is absent
DictGet(d, key) == IF key \in DOMAIN d THEN Found(d[key]) ELSE KeyError

\* p.beta0[_pair_key(a, b)], p.beta1[...], p.cphi[...] as pitzer_gammas reads them
StoreBinary(p, a, b) ==
    <<DictGet(p.beta0, _pair_key(a, b)), DictGet(p.beta1, _pair_key(a, b)),
      DictGet(p.cphi, _pair_key(a, b))>>

\* p.theta[(a, b)]
StoreTheta(p, a, b) == DictGet(p.theta, <<a, b>>)

\* p.psi[(a, b, c)]
StorePsi(p, a, b, c) == DictGet(p.psi, <<a, b, c>>)

NoQuery == [kind |-> "none", args |-> <<>>, fwd |-> <<>>, rev |-> <<>>]

\* a look-up of a stored coefficient, with its arguments in both orders
LookupStore ==
    /\ params.called /\ params.ok
    /\ query = NoQuery
    /\ \/ \E k \in PairKeys :
             query' = [kind |-> "binary", args |-> k,
                       fwd |-> StoreBinary(params.store, k[1], k[2]),
                       rev |-> StoreBinary(params.store, k[2], k[1])]
       \/ query' = [kind |-> "theta", args |-> ThetaKey,
                    fwd |-> <<StoreTheta(params.store, ThetaKey[1], ThetaKey[2])>>,
                    rev |-> <<StoreTheta(params.store, ThetaKey[2], ThetaKey[1])>>]
       \/ \E k \in {PsiKey1, PsiKey2} :
             \* the two anions of the triple exchanged
             LET an == {i \in 1..3 : k[i] # "Na+"}
                 sw == SwapToks(k, Min(an), Max(an))
             IN  query' = [kind |-> "psi", args |-> k,
                           fwd |-> <<StorePsi(params.store, k[1], k[2], k[3])>>,
                           rev |-> <<StorePsi(params.store, sw[1], sw[2], sw[3])>>]
    /\ UNCHANGED <<lines, edits, params, gcall>>
    /\ UNCHANGED <<rootVars, solveVars, simVars, otherVars>>

----------------------------------------------------------------------------
(* pitzer_gammas: the coefficients it reads *)

Species == {"Na+", "H+", "OH-", "HCO3-", "CO3-2"}
CHARGES == [sp \in Species |->
               CASE sp = "Na+" -> 1 [] sp = "H+" -> 1 [] sp = "OH-" -> -1
                 [] sp = "HCO3-" -> -1 [] sp = "CO3-2" -> -2]
CATIONS == {"Na+", "H+"}
ANIONS == {"OH-", "HCO3-", "CO3-2"}

\* m.get(sp, 0.0)
Get(m, sp) == IF sp \in DOMAIN m THEN m[sp] ELSE 0

\* 2*I = sum of m_i z_i^2, molalities in units of 1e-30 mol/kg
TwiceI(m) ==
    Get(m, "Na+") * CHARGES["Na+"] * CHARGES["Na+"]
    + Get(m, "H+") * CHARGES["H+"] * CHARGES["H+"]
    + Get(m, "OH-") * CHARGES["OH-"] * CHARGES["OH-"]
    + Get(m, "HCO3-") * CHARGES["HCO3-"] * CHARGES["HCO3-"]
    + Get(m, "CO3-2") * CHARGES["CO3-2"] * CHARGES["CO3-2"]

\* a variant that tests for an ionic strength of exactly zero
Dilute_ExactZero(m) == TwiceI(m) = 0

\* "if I < 1e-30", I = 0.5 * TwiceI in units of 1e-30
Dilute(m) == TwiceI(m) < 2

\* the cation-anion pairs whose binary terms are evaluated
BinaryPairs(m) ==
    {ca \in CATIONS \X ANIONS :
        ~(Get(m, ca[1]) = 0 \/ Get(m, ca[2]) = 0) /\ ca[1] = "Na+"}

\* the dictionary reads of one call, as <<dictionary, key>>
GammaReads(m) ==
    UNION {{<<"beta0", _pair_key("Na+", ca[2])>>, <<"beta1", _pair_key("Na+", ca[2])>>,
            <<"cphi", _pair_key("Na+", ca[2])>>} : ca \in BinaryPairs(m)}
    \cup (IF Get(m, "CO3-2") > 0 /\ Get(m, "OH-") > 0
          THEN {<<"theta", <<"CO3-2", "OH-">> >>} ELSE {})
    \cup (IF Get(m, "Na+") > 0 /\ Get(m, "CO3-2") > 0 /\ Get(m, "OH-") > 0
          THEN {<<"psi", <<"CO3-2", "Na+", "OH-">> >>} ELSE {})
    \cup (IF Get(m, "Na+") > 0 /\ Get(m, "CO3-2") > 0 /\ Get(m, "HCO3-") > 0
          THEN {<<"psi", <<"CO3-2", "HCO3-", "Na+">> >>} ELSE {})

\* the float 1.0 of the dilute branch
GammaOne == [k |-> "1.0", sp |-> "", m |-> <<>>, coef |-> {}]

\* math.exp(ln_gamma[sp]): a float determined by the molalities the call
\* read and the coefficients it looked up
GammaOf(sp, m, p) ==
    [k |-> "exp(ln_gamma)", sp |-> sp,
     m |-> [s \in Species |-> Get(m, s)],
     coef |-> {<<r, DictGet(p[r[1]], r[2])>> : r \in GammaReads(m)}]

\* the terms of ln(gamma) that a call evaluates
TermsOf(m) ==
    {<<"debye-hueckel">>} \cup {<<"binary", ca[2]>> : ca \in BinaryPairs(m)}
    \cup {<<r[1]>> : r \in {q \in GammaReads(m) : q[1] \in {"theta", "psi"}}}

GammaRaised(m, p) ==
    \E r \in GammaReads(m) : DictGet(p[r[1]], r[2]) = KeyError

\* a variant that fills the missing species into the caller's map
pitzer_gammas_FillsInput(m, p) ==
    [err |-> IF ~Dilute(m) /\ GammaRaised(m, p) THEN "KeyError" ELSE "",
     dilute |-> Dilute(m),
     reads |-> IF Dilute(m) THEN {} ELSE GammaReads(m),
     terms |-> IF Dilute(m) THEN {} ELSE TermsOf(m),
     gamma |-> IF Dilute(m) THEN [sp \in Species |-> GammaOne]
               ELSE IF GammaRaised(m, p) THEN <<>>
               ELSE [sp \in Species |-> GammaOf(sp, m, p)],
     twiceI |-> IF Dilute(m) THEN 0 ELSE TwiceI(m),
     m_after |-> [sp \in Species |-> Get(m, sp)],
     p_after |-> p]

\* outcome of pitzer_gammas(m, p): the exception it ends with ("" when it
\* returns), whether it returned through the I < 1e-30 branch, the
\* coefficients it read and the terms it evaluated, the returned gamma map
\* and ionic strength (as 2 I), and the two arguments as the call leaves them
pitzer_gammas(m, p) ==
    IF Dilute(m)
    THEN [err |-> "", dilute |-> TRUE, reads |-> {}, terms |-> {},
          gamma |-> [sp \in Species |-> GammaOne], twiceI |-> 0,
          m_after |-> m, p_after |-> p]
    ELSE [err |-> IF GammaRaised(m, p) THEN "KeyError" ELSE "",
          dilute |-> FALSE,
          reads |-> GammaReads(m),
          terms |-> TermsOf(m),
          gamma |-> IF GammaRaised(m, p) THEN <<>>
                    ELSE [sp \in Species |-> GammaOf(sp, m, p)],
          twiceI |-> TwiceI(m),
          m_after |-> m, p_after |-> p]

NoCall == [called |-> FALSE, m |-> <<>>,
           res |-> [err |-> "", dilute |-> FALSE, reads |-> {}]]

\* maps that lack species, hold an ion below the epsilon, or a negative entry
PartialMaps ==
    {<<>>, [sp \in {"H+"} |-> 1], [sp \in {"Na+", "OH-"} |-> 1],
     [sp \in {"Na+", "OH-", "CO3-2"} |-> MaxMolality], [sp \in {"Na+"} |-> -1]}

\* the compositions a call is given: every species absent or present, at
\* the smallest or the largest molality, and the partial maps
GammaInputs == [Species -> {0, 1}] \cup [Species -> {0, MaxMolality}] \cup PartialMaps

CallGammas ==
    /\ params.called /\ params.ok
    /\ ~gcall.called
    /\ \E m \in GammaInputs :
          LET res == pitzer_gammas(m, params.store)
          IN  /\ gcall' = [called |-> TRUE, m |-> res.m_after, res |-> res, arg |-> m]
              /\ params' = [params EXCEPT !.store = res.p_after]
    /\ UNCHANGED <<lines, edits, query>>
    /\ UNCHANGED <<rootVars, solveVars, simVars, otherVars>>

----------------------------------------------------------------------------
(* _find_root_bisect_on_log10(fun, lo, hi, nscan = 240) *)
(* Positions are grid points: ScanX(i) is xs[i], and a midpoint 0.5*(a+b)   *)
(* is rounded to a representable point. The residual is given by its sign:  *)
(* f.left at the low end, the opposite sign from f.cross on, 0 at f.zero.   *)

NScan == 240
BisectSteps == 90

ScanX(i) == i * GridPerInterval
LastX == ScanX(NScan - 1)

Sign(f, x) == IF x = f.zero THEN 0 ELSE IF x < f.cross THEN f.left ELSE -f.left

\* the residuals the callers' closures can have on the scanned range
Residuals ==
    [left : {-1, 1},
     cross : {1, GridPerInterval, GridPerInterval + 3, LastX - 1, LastX, LastX + 1},
     zero : {-1, 0, GridPerInterval, GridPerInterval + 3, LastX - GridPerInterval, LastX}]

\* the indices i of the loop "for i in range(len(xs) - 1)" that end it
ScanHits(f) ==
    {i \in 0..(NScan - 2) :
        \/ Sign(f, ScanX(i)) = 0
        \/ Sign(f, ScanX(i)) * Sign(f, ScanX(i + 1)) < 0}

\* 0.5 * (a + b)
Mid(a, b) == (a + b) \div 2

\* a variant that runs one more bisection step
BisectDone_OffByOne(k) == k >= BisectSteps + 1

\* "for _ in range(90)" is exhausted
BisectDone(k) == k >= BisectSteps

\* a variant that keeps the half without the sign change
BisectBody_WrongHalf(f, r) ==
    LET m == Mid(r.a, r.b)
        fm == Sign(f, m)
    IN  IF r.fa * fm <= 0
        THEN [r EXCEPT !.a = m, !.fa = fm, !.k = @ + 1, !.evals = @ + 1]
        ELSE [r EXCEPT !.b = m, !.fb = fm, !.k = @ + 1, !.evals = @ + 1]

\* one pass of the bisection loop body on the bracket r
BisectBody(f, r) ==
    LET m == Mid(r.a, r.b)
        fm == Sign(f, m)
    IN  IF r.fa * fm <= 0
        THEN [r EXCEPT !.b = m, !.fb = fm, !.k = @ + 1, !.evals = @ + 1]
        ELSE [r EXCEPT !.a = m, !.fa = fm, !.k = @ + 1, !.evals = @ + 1]

NoResidual == [left |-> 1, cross |-> 0, zero |-> -1]

RootIdle ==
    [pc |-> "idle", scanned |-> 0, k |-> 0, evals |-> 0,
     a |-> 0, b |-> 0, fa |-> 0, fb |-> 0, ret |-> 0]

RootStart == [RootIdle EXCEPT !.pc = "scan"]

\* the state after one step of the function from state r
RootStep(f, r) ==
    IF r.pc = "scan" /\ r.scanned < NScan
    THEN \* fs = [fun(x) for x in xs], one evaluation
         [r EXCEPT !.scanned = @ + 1, !.evals = @ + 1]
    ELSE IF r.pc = "scan"
    THEN \* the loop over adjacent scan points
         LET hits == ScanHits(f)
         IN  IF hits = {} THEN [r EXCEPT !.pc = "raised"]
         ELSE LET i == Min(hits)
              IN  IF Sign(f, ScanX(i)) = 0
                  THEN [r EXCEPT !.pc = "returned", !.ret = ScanX(i)]
                  ELSE [r EXCEPT !.pc = "bisect",
                                 !.a = ScanX(i), !.b = ScanX(i + 1),
                                 !.fa = Sign(f, ScanX(i)),
                                 !.fb = Sign(f, ScanX(i + 1))]
    ELSE IF r.pc = "bisect" /\ ~BisectDone(r.k)
    THEN BisectBody(f, r)
    ELSE IF r.pc = "bisect"
    THEN [r EXCEPT !.pc = "returned", !.ret = Mid(r.a, r.b)]
    ELSE r

RootTerminated(r) == r.pc \in {"returned", "raised"}

RECURSIVE RootSteps(_, _, _)
\* n >= 1 steps from state r, taken as two halves and cut short at the end
RootSteps(f, r, n) ==
    IF r.pc \in {"returned", "raised"} THEN r
    ELSE IF n = 1 THEN RootStep(f, r)
    ELSE CHOOSE t \in {RootSteps(f, h, n - n \div 2) :
                          h \in {RootSteps(f, r, n \div 2)}} : TRUE

\* the whole call: the state in which it returns or raises
RootRunFrom(f, r) == RootSteps(f, r, NScan + BisectSteps + 4)

\* the call, with the 240 scan evaluations taken at once
_find_root_bisect_on_log10(f) ==
    RootSteps(f, [RootStart EXCEPT !.scanned = NScan, !.evals = NScan], BisectSteps + 4)

\* one step of a running call
RootAdvance ==
    /\ rf.pc \in {"scan", "bisect"}
    /\ rf' = RootStep(fun, rf)
    /\ UNCHANGED <<fun, parseVars, solveVars, simVars, otherVars>>

----------------------------------------------------------------------------
(* solve_pH_for_total_carbon and solve_cycle_equilibrium_for_pressure *)
(* Molalities are integers in one unit; a quantity that the program gets   *)
(* from exp, log10 or a division is a term naming its formula, the inputs  *)
(* (c, na), the gamma snapshot g and the root x it was computed from.      *)

MaxIter == 60

Num(n) == [k |-> "num", c |-> n, na |-> 0, g |-> 0, x |-> 0]
Term(kind, c, na, g, x) == [k |-> kind, c |-> c, na |-> na, g |-> g, x |-> x]
Absent == [k |-> "absent", c |-> 0, na |-> 0, g |-> 0, x |-> 0]

Max2(a, b) == IF a >= b THEN a ELSE b
Min2(a, b) == IF a <= b THEN a ELSE b

\* a molality as pitzer_gammas sees it, in units of 1e-30: every term of
\* the solvers is a positive number far above 1e-30
MolClass(v) ==
    IF v.k = "num" THEN (IF v.c > 0 THEN 2 ELSE IF v.c < 0 THEN -2 ELSE 0) ELSE 2

CompClass(comp) == [sp \in Species |-> MolClass(comp[sp])]

Comp(na, h, oh, hco3, co3, co2) ==
    [sp \in Species \cup {"CO2"} |->
        CASE sp = "Na+" -> na [] sp = "H+" -> h [] sp = "OH-" -> oh
          [] sp = "HCO3-" -> hco3 [] sp = "CO3-2" -> co3 [] sp = "CO2" -> co2]

NoEnv == [conv |-> 0, resid |-> NoResidual, failAt |-> 0]

\* the environments: the ln(gamma) test first passes at iteration conv (0:
\* not within the budget), the charge-balance residual has the signs of
\* resid, except at iteration failAt, where it has no sign change
Envs ==
    [conv : {0, 1, 2, MaxIter},
     resid : {[left |-> -1, cross |-> GridPerInterval + 3, zero |-> -1],
              [left |-> -1, cross |-> LastX - 1, zero |-> GridPerInterval]},
     failAt : {0, 2}]

ResidualAt(e, j) ==
    IF j = e.failAt THEN [left |-> -1, cross |-> LastX + 1, zero |-> -1] ELSE e.resid

\* max(abs(log(gam_new[k] / gam[k]))) < 1e-6 after iteration j
Converged(e, j) == e.conv # 0 /\ j >= e.conv

SolverIdle ==
    [pc |-> "idle", variant |-> "", req |-> 0, CT_m |-> 0, NaT_m |-> 0,
     it |-> 0, conv |-> FALSE, roots |-> 0, gcalls |-> 0, g |-> 0,
     comp |-> Comp(Absent, Absent, Absent, Absent, Absent, Absent),
     pH |-> Absent, err |-> ""]

\* a variant in which the flag of the previous call's break is still set
SolverCall_Stale(variant, req, na) ==
    [SolverIdle EXCEPT !.pc = "start", !.variant = variant, !.req = req,
                       !.NaT_m = na, !.conv = sv.conv]

\* entry to a solver: every local of the call is new
SolverCall(variant, req, na) ==
    [SolverIdle EXCEPT !.pc = "start", !.variant = variant, !.req = req, !.NaT_m = na]

\* a variant without the capacity cap
Uncapped(ct, na) == ct

\* CT_m = min(CT_m, NaT_m)
CapCT(ct, na) == Min2(ct, na)

\* a variant with a strict comparison
PreEquivalence_Strict(ct, na) == 2 * ct < na

\* CT_m <= 0.5 * NaT_m
PreEquivalence(ct, na) == 2 * ct <= na

\* a variant without the break
LoopContinues_NoBreak(it, converged) == it < MaxIter

\* "for _ in range(max_iter)" has iterations left and no break was taken
LoopContinues(it, converged) == it < MaxIter /\ ~converged

\* the pre-equivalence branch: composition and pH at once
Shortcut(p, s, ct) ==
    LET na == s.NaT_m
        mOH == Max2(0, na - 2 * ct)
        mCO3 == Max2(0, ct)
        comp0 == Comp(Num(na), Term("1e-16", 0, 0, 0, 0), Num(mOH), Num(0),
                      Num(mCO3), Absent)
        gam == pitzer_gammas(CompClass(comp0), p)
    IN  IF gam.err # ""
        THEN [s EXCEPT !.pc = "raised", !.err = gam.err, !.CT_m = ct, !.gcalls = 1]
        ELSE [s EXCEPT
                 !.pc = "returned", !.CT_m = ct, !.gcalls = 1,
                 !.pH = IF mOH > 0 THEN Term("-log10(KW/(gOH*mOH))", ct, na, 0, 0)
                        ELSE Term("-log10(KW/1e-30)", 0, 0, 0, 0),
                 !.comp = Comp(Num(na),
                               IF mOH > 0
                               THEN Term("KW/(gOH*mOH)/max(gH,1e-30)", ct, na, 0, 0)
                               ELSE Term("KW/1e-30/max(gH,1e-30)", ct, na, 0, 0),
                               Num(mOH), Num(0), Num(mCO3), Num(0))]

\* the naive strongly basic guess and its activity coefficients
FirstGuess(p, s, c) ==
    LET comp == Comp(Num(s.NaT_m), Term("1e-16", 0, 0, 0, 0), Num(s.NaT_m), Num(0),
                     Num(0), Absent)
        gam == pitzer_gammas(CompClass(comp), p)
    IN  IF gam.err # ""
        THEN [s EXCEPT !.pc = "raised", !.err = gam.err, !.CT_m = c, !.gcalls = 1]
        ELSE [s EXCEPT !.pc = "loop", !.CT_m = c, !.gcalls = 1, !.comp = comp, !.g = 0]

\* comp_new of one iteration, from the root x found under snapshot g
CompNew(s, x) ==
    LET c == s.CT_m
        na == s.NaT_m
        g == s.g
    IN  IF s.variant = "total_carbon"
        THEN Comp(Num(na), Term("10**log_mH", c, na, g, x),
                  Term("KW/(aH*gOH)", c, na, g, x),
                  IF c <= 0 THEN Num(0) ELSE Term("r1*mCO2", c, na, g, x),
                  IF c <= 0 THEN Num(0) ELSE Term("r2*mCO2", c, na, g, x),
                  Absent)
        ELSE Comp(Num(na), Term("10**log_mH", c, na, g, x),
                  Term("KW/(aH*gOH)", c, na, g, x),
                  Term("KA1*mCO2_fixed/(gH*gHCO3*mH)", c, na, g, x),
                  Term("KA2*gHCO3*mHCO3/(gH*gCO3*mH)", c, na, g, x),
                  Absent)

\* one pass of the outer loop body
OuterIteration(e, p, s) ==
    LET root == _find_root_bisect_on_log10(ResidualAt(e, s.it + 1))
        comp_new == CompNew(s, root.ret)
        gam_new == pitzer_gammas(CompClass(comp_new), p)
    IN  IF root.pc = "raised"
        THEN [s EXCEPT !.pc = "raised", !.err = "RuntimeError", !.roots = @ + 1]
        ELSE IF gam_new.err # ""
        THEN [s EXCEPT !.pc = "raised", !.err = gam_new.err, !.roots = @ + 1,
                       !.gcalls = @ + 1]
        ELSE [s EXCEPT !.roots = @ + 1, !.gcalls = @ + 1, !.it = @ + 1,
                       !.comp = comp_new, !.g = s.it + 1,
                       !.conv = Converged(e, s.it + 1)]

\* after the loop: pH from the current gam and comp, and the CO2 entry
Finish(s) ==
    LET c == s.CT_m
        na == s.NaT_m
        x == s.comp["H+"].x
        co2 == IF s.variant = "fixed_pco2" THEN Num(c)
               ELSE IF c <= 0 THEN Num(0)
               ELSE Term("CT/(1+r1+r2)", c, na, s.g, x)
    IN  [s EXCEPT !.pc = "returned",
                  !.pH = Term("-log10(gH*mH)", c, na, s.g, x),
                  !.comp = [s.comp EXCEPT !["CO2"] = co2]]

\* the state after one step of a solver call from state s
SolverStep(e, p, s) ==
    IF s.pc = "start" /\ s.variant = "total_carbon"
    THEN IF PreEquivalence(CapCT(s.req, s.NaT_m), s.NaT_m)
         THEN Shortcut(p, s, CapCT(s.req, s.NaT_m))
         ELSE FirstGuess(p, s, CapCT(s.req, s.NaT_m))
    ELSE IF s.pc = "start"
    THEN \* mCO2_fixed = kh_m_per_kg_atm * P_atm, given as req
         FirstGuess(p, s, s.req)
    ELSE IF s.pc = "loop" /\ LoopContinues(s.it, s.conv)
    THEN OuterIteration(e, p, s)
    ELSE IF s.pc = "loop"
    THEN Finish(s)
    ELSE s

SolverTerminated(s) == s.pc \in {"returned", "raised"}

RECURSIVE SolverSteps(_, _, _, _)
\* n >= 1 steps from state s, taken as two halves and cut short at the end
SolverSteps(e, p, s, n) ==
    IF s.pc \in {"returned", "raised"} THEN s
    ELSE IF n = 1 THEN SolverStep(e, p, s)
    ELSE CHOOSE t \in {SolverSteps(e, p, h, n - n \div 2) :
                          h \in {SolverSteps(e, p, s, n \div 2)}} : TRUE

\* the whole call: the state in which it returns or raises
SolverRunFrom(e, p, s) == SolverSteps(e, p, s, MaxIter + 4)

\* the whole call solve_pH_for_total_carbon(CT_m, NaT_m, p)
solve_pH_for_total_carbon(e, p, CT_m, NaT_m) ==
    SolverRunFrom(e, p, SolverCall("total_carbon", CT_m, NaT_m))

\* the whole call solve_cycle_equilibrium_for_pressure(P_atm, NaT_m, p, kh)
solve_cycle_equilibrium_for_pressure(e, p, mCO2_fixed, NaT_m) ==
    SolverRunFrom(e, p, SolverCall("fixed_pco2", mCO2_fixed, NaT_m))

\* what a call returns: (pH, comp), or the exception
Result(s) == [pH |-> s.pH, comp |-> s.comp, err |-> s.err]

Variants == {"total_carbon", "fixed_pco2"}

CallSolver ==
    /\ sv.pc = "idle" \/ SolverTerminated(sv)
    /\ sim.pc = "idle"
    /\ \E v \in Variants, req \in {-1, 0, 1, 2, MaxCT}, na \in {0, 2, MaxNa} :
          /\ v = "fixed_pco2" => req >= 0
          /\ sv' = SolverCall(v, req, na)
    /\ UNCHANGED <<env, parseVars, rootVars, simVars, otherVars>>

SolverAdvance ==
    /\ sv.pc \in {"start", "loop"}
    /\ sv' = SolverStep(env, params.store, sv)
    /\ UNCHANGED <<env, parseVars, rootVars, simVars, otherVars>>

----------------------------------------------------------------------------
(* SystemConfig, simulate_mode_absorbed and simulate_mode_cycles *)
(* One unit of amount is chosen so that, for the configuration at hand,   *)
(* dn_per_cycle / kgw and (g / 44.01) / kgw are whole numbers of CT_m.    *)

SystemConfig(na, dP) == [NaT_m |-> na, P_high_psig |-> MaxDP + 1, dP_psig |-> dP]

\* (P_high_atm - P_low_atm) * headspace_L / (R_L_ATM * T_K), per kg of water
dn_of(cfg) == cfg.dP_psig

SimIdle ==
    [pc |-> "idle", mode |-> "", NaT_m |-> 0, dn |-> 0, cycles |-> 0, k |-> 0,
     cum |-> 0, CT_m |-> 0, g |-> 0, total |-> 0, step |-> 0, P_low |-> 0,
     out |-> <<>>, err |-> ""]

\* a variant without "dn_per_cycle = max(0.0, dn_per_cycle)"
CyclesStart_Unclamped(cfg, cycles) ==
    [pc |-> "running", mode |-> "cycles", NaT_m |-> cfg.NaT_m, dn |-> dn_of(cfg),
     cycles |-> cycles, k |-> 0, cum |-> 0, CT_m |-> 0, g |-> 0, total |-> 0,
     step |-> 0, P_low |-> cfg.P_high_psig - cfg.dP_psig, out |-> <<>>, err |-> ""]

\* the body of simulate_mode_cycles before its loop
CyclesStart(cfg, cycles) ==
    [SimIdle EXCEPT !.pc = "running", !.mode = "cycles", !.NaT_m = cfg.NaT_m,
                    !.dn = Max2(0, dn_of(cfg)), !.cycles = cycles,
                    !.P_low = cfg.P_high_psig - cfg.dP_psig]

\* the body of simulate_mode_absorbed before its loop
AbsorbedStart(cfg, total_CO2_g, step_g) ==
    [SimIdle EXCEPT !.pc = "running", !.mode = "absorbed", !.NaT_m = cfg.NaT_m,
                    !.total = total_CO2_g, !.step = step_g]

\* the loop of the running simulation has another pass to make
LoopHasNext(s) ==
    IF s.mode = "cycles" THEN s.k < s.cycles ELSE s.g <= s.total

CycleRow(k, s, cum, r) ==
    [cycle |-> k, P_low_psig |-> s.P_low, CO2_charged_g |-> cum, pH |-> r.pH,
     m_Na |-> r.comp["Na+"], m_OH |-> r.comp["OH-"], m_HCO3 |-> r.comp["HCO3-"],
     m_CO3 |-> r.comp["CO3-2"], m_CO2 |-> r.comp["CO2"]]

AbsorbedRow(g, ct, r) ==
    [CO2_g |-> g, CT_m |-> ct, pH |-> r.pH,
     m_Na |-> r.comp["Na+"], m_OH |-> r.comp["OH-"], m_HCO3 |-> r.comp["HCO3-"],
     m_CO3 |-> r.comp["CO3-2"], m_CO2 |-> r.comp["CO2"]]

\* a variant that records a row for a step whose solver call raised
CyclePass_Swallowed(e, p, s) ==
    LET r == solve_pH_for_total_carbon(e, p, s.CT_m + s.dn, s.NaT_m)
    IN  [s EXCEPT !.k = @ + 1, !.cum = @ + s.dn, !.CT_m = @ + s.dn,
                  !.out = Append(@, CycleRow(s.k + 1, s, s.cum + s.dn, r))]

\* one pass of "for k in range(1, cycles + 1)"
CyclePass(e, p, s) ==
    LET k == s.k + 1
        cum == s.cum + s.dn
        ct == s.CT_m + s.dn
        r == solve_pH_for_total_carbon(e, p, ct, s.NaT_m)
    IN  IF r.pc = "raised"
        THEN [s EXCEPT !.pc = "raised", !.err = r.err, !.k = k, !.cum = cum, !.CT_m = ct]
        ELSE [s EXCEPT !.k = k, !.cum = cum, !.CT_m = ct,
                       !.out = Append(@, CycleRow(k, s, cum, r))]

\* one pass of "while g <= total_CO2_g + 1e-9"
AbsorbedPass(e, p, s) ==
    LET ct == s.g
        r == solve_pH_for_total_carbon(e, p, ct, s.NaT_m)
    IN  IF r.pc = "raised"
        THEN [s EXCEPT !.pc = "raised", !.err = r.err, !.CT_m = ct]
        ELSE [s EXCEPT !.CT_m = ct, !.g = s.g + s.step,
                       !.out = Append(@, AbsorbedRow(s.g, ct, r))]

\* the state after one step of a simulation from state s
SimStep(e, p, s) ==
    IF s.pc # "running" THEN s
    ELSE IF ~LoopHasNext(s) THEN [s EXCEPT !.pc = "returned"]
    ELSE IF s.mode = "cycles" THEN CyclePass(e, p, s)
    ELSE AbsorbedPass(e, p, s)

\* a SystemConfig with its Henry's-law constant
ConfigKH(na, dP, kh) ==
    [NaT_m |-> na, P_high_psig |-> MaxDP + 1, dP_psig |-> dP, KH_m_per_kg_atm |-> kh]

\* a variant that solves each cycle at the CO2 pressure of the headspace
CycleSolve_Henry(e, p, cfg, ct) ==
    solve_cycle_equilibrium_for_pressure(
        e, p, cfg.KH_m_per_kg_atm * Max2(0, cfg.P_high_psig - cfg.dP_psig), cfg.NaT_m)

\* "pH, comp = solve_pH_for_total_carbon(CT_m=CT_m, NaT_m=NaT_m, p=p)"
CycleSolve(e, p, cfg, ct) == solve_pH_for_total_carbon(e, p, ct, cfg.NaT_m)

RECURSIVE CyclesLoop(_, _, _, _, _)
\* the passes k + 1 .. cycles of the loop, from the rows and solver calls
\* acc made so far
CyclesLoop(e, p, cfg, cycles, acc) ==
    IF acc.k >= cycles THEN [acc EXCEPT !.pc = "returned"]
    ELSE LET k == acc.k + 1
             dn == Max2(0, dn_of(cfg))
             P_low == [P_low |-> cfg.P_high_psig - cfg.dP_psig]
         IN  CHOOSE out \in
                 {IF r.pc = "raised"
                  THEN [acc EXCEPT !.pc = "raised", !.err = r.err, !.k = k,
                                   !.calls = Append(@, r.variant)]
                  ELSE CyclesLoop(e, p, cfg, cycles,
                           [acc EXCEPT !.k = k, !.calls = Append(@, r.variant),
                                       !.out = Append(@, CycleRow(k, P_low, k * dn, r))]) :
                  r \in {CycleSolve(e, p, cfg, k * dn)}} : TRUE

\* the whole call simulate_mode_cycles(p, cfg, cycles): its rows, how it
\* ended, and the solver each cycle called
simulate_mode_cycles(e, p, cfg, cycles) ==
    CyclesLoop(e, p, cfg, cycles,
               [pc |-> "running", k |-> 0, out |-> <<>>, calls |-> <<>>, err |-> ""])

StartCycles ==
    /\ sim.pc = "idle"
    /\ sv.pc = "idle"
    /\ \E na \in {0, 2, MaxNa}, dP \in -1..MaxDP, cycles \in {-1, 0, MaxCycles} :
          sim' = CyclesStart(SystemConfig(na, dP), cycles)
    /\ UNCHANGED <<mn, parseVars, rootVars, solveVars, otherVars>>

StartAbsorbed ==
    /\ sim.pc = "idle"
    /\ sv.pc = "idle"
    /\ \E total \in {0, MaxTotal}, step \in -1..1 :
          sim' = AbsorbedStart(SystemConfig(MaxNa, 1), total, step)
    /\ UNCHANGED <<mn, parseVars, rootVars, solveVars, otherVars>>

SimAdvance ==
    /\ sim.pc = "running"
    /\ mn.pc = "idle"
    /\ Len(sim.out) < MaxRows
    /\ sim' = SimStep(env, params.store, sim)
    /\ UNCHANGED <<mn, parseVars, rootVars, solveVars, otherVars>>

----------------------------------------------------------------------------
(* run_internal_tests and main *)

\* target_g / 44.01 and 385.0 / 44.01, in units of one CT_m step times kgw
n_target == 7
CT_eq_m == 3

CeilDiv(a, b) == (a + b - 1) \div b

cycles_needed(dn) == Max2(1, CeilDiv(n_target, dn))

\* the placeholder pH of the shortcut is -16; any other pH is a float that
\* may or may not lie in the range an assertion asks for
AssertOutcomes(pH) ==
    IF pH.k = "-log10(KW/1e-30)" THEN {FALSE} ELSE BOOLEAN

MainIdle ==
    [pc |-> "idle", is_file |-> FALSE, mode |-> "", no_tests |-> FALSE,
     cfg |-> SystemConfig(0, 0), cycles |-> 0, total |-> 0, step |-> 0,
     info |-> FALSE, tests |-> 0, solves |-> 0, header |-> FALSE, printed |-> 0,
     err |-> ""]

Fail(m, err) == [m EXCEPT !.pc = "failed", !.err = err]

\* a variant that swallows the exception of read_pitzer_params
AfterLoad_Swallowed(ok, no_tests) == IF no_tests THEN "simulate" ELSE "test1"

\* where main continues after "params = read_pitzer_params(pitzer_path)"
AfterLoad(ok, no_tests) ==
    IF ~ok THEN "failed" ELSE IF no_tests THEN "simulate" ELSE "test1"

\* the files main is started on: the reference table, and it less one line
MainTables ==
    {ReferenceTable} \cup {DeleteLine(ReferenceTable, i) : i \in 1..Len(ReferenceTable)}

MainEnvs ==
    {[conv |-> 2, resid |-> [left |-> -1, cross |-> GridPerInterval + 3, zero |-> -1],
      failAt |-> 0],
     [conv |-> 0, resid |-> [left |-> -1, cross |-> GridPerInterval + 3, zero |-> -1],
      failAt |-> 2]}

\* ap.parse_args() and the construction of cfg
MainStart ==
    /\ mn.pc = "idle"
    /\ \E is_file \in BOOLEAN, no_tests \in BOOLEAN, na \in {0, MaxNa},
          dP \in {0, 1, MaxDP}, mode \in {"absorbed", "cycles"},
          cycles \in {0, MaxCycles}, step \in -1..1 :
          /\ mode = "absorbed" => cycles = 0
          /\ mode = "cycles" => step = 1
          /\ mn' = [MainIdle EXCEPT !.pc = "check_file", !.is_file = is_file,
                                    !.no_tests = no_tests, !.mode = mode,
                                    !.cfg = SystemConfig(na, dP), !.cycles = cycles,
                                    !.total = MaxTotal, !.step = step]
    /\ UNCHANGED <<sim, parseVars, rootVars, solveVars, otherVars>>

\* "if not pitzer_path.is_file(): raise", then the [INFO] line
MainCheckFile ==
    /\ mn.pc = "check_file"
    /\ mn' = IF ~mn.is_file THEN Fail(mn, "FileNotFoundError")
             ELSE [mn EXCEPT !.pc = "load", !.info = TRUE]
    /\ UNCHANGED <<sim, parseVars, rootVars, solveVars, otherVars>>

MainLoad ==
    /\ mn.pc = "load"
    /\ params' = [called |-> TRUE] @@ read_pitzer_params(lines)
    /\ mn' = [mn EXCEPT !.pc = AfterLoad(params'.ok, mn.no_tests),
                        !.err = IF AfterLoad(params'.ok, mn.no_tests) = "failed"
                                THEN params'.err ELSE ""]
    /\ UNCHANGED <<sim, lines, edits, query, gcall, rootVars, solveVars, otherVars>>

\* test 1: the starting pH, asserted above 14
MainTest1 ==
    /\ mn.pc = "test1"
    /\ LET r == solve_pH_for_total_carbon(env, params.store, 0, mn.cfg.NaT_m)
           m == [mn EXCEPT !.tests = @ + 1, !.solves = @ + 1]
       IN  IF r.pc = "raised" THEN mn' = Fail(m, r.err)
           ELSE \E ok \in AssertOutcomes(r.pH) :
                  mn' = IF ok THEN [m EXCEPT !.pc = "test2"]
                        ELSE Fail(m, "AssertionError")
    /\ UNCHANGED <<sim, parseVars, rootVars, solveVars, otherVars>>

\* test 2: the pH near equivalence, asserted between 10 and 13
MainTest2 ==
    /\ mn.pc = "test2"
    /\ LET r == solve_pH_for_total_carbon(env, params.store, CT_eq_m, mn.cfg.NaT_m)
           m == [mn EXCEPT !.tests = @ + 1, !.solves = @ + 1]
       IN  IF r.pc = "raised" THEN mn' = Fail(m, r.err)
           ELSE \E ok \in AssertOutcomes(r.pH) :
                  mn' = IF ok THEN [m EXCEPT !.pc = "test3"]
                        ELSE Fail(m, "AssertionError")
    /\ UNCHANGED <<sim, parseVars, rootVars, solveVars, otherVars>>

\* test 3: dn is checked, then the cycles that charge the target are run
MainTest3 ==
    /\ mn.pc = "test3"
    /\ IF dn_of(mn.cfg) <= 0
       THEN /\ mn' = Fail([mn EXCEPT !.tests = @ + 1], "RuntimeError")
            /\ sim' = sim
       ELSE /\ mn' = [mn EXCEPT !.tests = @ + 1, !.pc = "test3_rows"]
            /\ sim' = CyclesStart(mn.cfg, cycles_needed(dn_of(mn.cfg)))
    /\ UNCHANGED <<parseVars, rootVars, solveVars, otherVars>>

\* one step of the simulation that main or its test 3 is waiting for
MainSimPass ==
    /\ mn.pc \in {"test3_rows", "sim_rows"}
    /\ sim.pc = "running"
    /\ sim.mode = "absorbed" => Len(sim.out) < MaxRows
    /\ sim' = SimStep(env, params.store, sim)
    /\ mn' = [mn EXCEPT !.solves = IF LoopHasNext(sim) THEN @ + 1 ELSE @]
    /\ UNCHANGED <<parseVars, rootVars, solveVars, otherVars>>

\* test 3, after its rows: the last row's pH, asserted within 7.7 .. 8.7
MainTest3End ==
    /\ mn.pc = "test3_rows"
    /\ sim.pc \in {"returned", "raised"}
    /\ IF sim.pc = "raised" THEN mn' = Fail(mn, sim.err)
       ELSE \E ok \in AssertOutcomes(sim.out[Len(sim.out)].pH) :
              mn' = IF ok THEN [mn EXCEPT !.pc = "simulate"]
                    ELSE Fail(mn, "AssertionError")
    /\ sim' = SimIdle
    /\ UNCHANGED <<parseVars, rootVars, solveVars, otherVars>>

\* "if args.mode == 'absorbed': rows = simulate_mode_absorbed(...) else ..."
MainSimulate ==
    /\ mn.pc = "simulate"
    /\ sim' = IF mn.mode = "absorbed"
              THEN AbsorbedStart(mn.cfg, mn.total, mn.step)
              ELSE CyclesStart(mn.cfg, mn.cycles)
    /\ mn' = [mn EXCEPT !.pc = "sim_rows"]
    /\ UNCHANGED <<parseVars, rootVars, solveVars, otherVars>>

\* the simulation is over: its exception ends main, else the header line
MainPrintHeader ==
    /\ mn.pc = "sim_rows"
    /\ sim.pc \in {"returned", "raised"}
    /\ mn' = IF sim.pc = "raised" THEN Fail(mn, sim.err)
             ELSE [mn EXCEPT !.pc = "print", !.header = TRUE]
    /\ UNCHANGED <<sim, parseVars, rootVars, solveVars, otherVars>>

\* "for r in rows: print(...)"
MainPrintRow ==
    /\ mn.pc = "print"
    /\ mn' = IF mn.printed < Len(sim.out) THEN [mn EXCEPT !.printed = @ + 1]
             ELSE [mn EXCEPT !.pc = "done"]
    /\ UNCHANGED <<sim, parseVars, rootVars, solveVars, otherVars>>

----------------------------------------------------------------------------
(* solubility_models/aqion_closed_system.py: solve_closed_carbonate_system *)
(* pH values of the bracket are grid points 0..AqWidth; the residual is      *)
(* given by its signs; a float that depends on [H+] is a term naming the pH. *)

AqTol == 2
AqMaxIter == 200

AqIdle ==
    [pc |-> "idle", inp |-> <<>>, ct |-> 0, f_low |-> 0, f_high |-> 0, lo |-> 0,
     hi |-> 0, it |-> 0, solver |-> "", ph_root |-> <<>>, quartic_ph |-> <<>>,
     species |-> <<>>, alpha |-> <<>>, divs |-> {}, err |-> ""]

\* the arguments and what the arithmetic yields: the signs of the residual
\* at the bracket ends and between them, whether numpy was imported, the
\* number of admissible quartic roots, whether 10**(-ph) underflows to 0.0
\* at the bisected pH
AqInputs ==
    {i \in [ct : {-1, 0, 1}, ka1 : {0, 1}, f_low : {-1, 0, 1}, f_high : {-1, 0, 1},
            cross : {1, AqWidth \div 2 + 1, AqWidth}, zero : {-1, AqWidth \div 2},
            np : BOOLEAN, nroots : {0, 1}, validate : BOOLEAN, h_zero : BOOLEAN] :
        /\ i.h_zero => i.f_low * i.f_high < 0
        /\ i.f_low * i.f_high >= 0 => i.cross = 1 /\ i.zero = -1}

\* cb(ph_value) at a grid point, as a sign
AqSign(i, x) ==
    IF x = 0 THEN i.f_low ELSE IF x = AqWidth THEN i.f_high
    ELSE IF x = i.zero THEN 0 ELSE IF x < i.cross THEN i.f_low ELSE i.f_high

\* a variant without "ct = max(..., 0.0)"
ClampCT_Missing(ct) == ct

\* ct = max(inputs.total_inorganic_carbon_m, 0.0)
ClampCT(ct) == Max2(ct, 0)

\* a variant without the "elif f_high == 0" branch
AqPath_NoHighBound(f_low, f_high) ==
    IF f_low = 0 THEN "bracket-bound"
    ELSE IF f_low * f_high > 0 THEN "quartic-fallback"
    ELSE "bisection-charge-balance"

\* the if / elif chain on f_low and f_high
AqPath(f_low, f_high) ==
    IF f_low = 0 THEN "bracket-bound"
    ELSE IF f_high = 0 THEN "bracket-bound"
    ELSE IF f_low * f_high > 0 THEN "quartic-fallback"
    ELSE "bisection-charge-balance"

\* _solve_quartic_root: None without numpy or without an admissible root
QuartRoot(i) == IF i.np /\ i.nroots > 0 THEN <<"-log10(quartic)">> ELSE <<>>

\* "if denom <= 0: denom = 1e-30"
GuardedDenom(d) == IF d = "zero" THEN "pos" ELSE d

\* h**2 + ka1*h + ka1*ka2 for h = 10**(-ph), ka2 > 0
DenomClass(ka1, h_zero) == IF h_zero /\ ka1 = 0 THEN "zero" ELSE "pos"

\* _alpha_fractions_from_h
alpha_fractions_from_h(ph, ka1, h_zero) ==
    IF h_zero
    THEN [a0 |-> <<"0">>, a1 |-> <<"0">>, a2 |-> IF ka1 = 0 THEN <<"0">> ELSE <<"1">>]
    ELSE IF ka1 = 0
    THEN [a0 |-> <<"1">>, a1 |-> <<"0">>, a2 |-> <<"0">>]
    ELSE [a0 |-> <<"h^2/denom", ph>>, a1 |-> <<"ka1*h/denom", ph>>,
          a2 |-> <<"ka1*ka2/denom", ph>>]

\* ct * alpha[...]
TimesCT(ct, a) ==
    IF ct = 0 \/ a = <<"0">> THEN <<"0">>
    ELSE IF a = <<"1">> THEN <<"ct", ct>> ELSE <<"ct*alpha", ct, a>>

\* _species_from_ph
species_from_ph(ct, ph, ka1, h_zero) ==
    LET alpha == alpha_fractions_from_h(ph, ka1, h_zero)
    IN  [species |-> [H |-> IF h_zero THEN <<"0">> ELSE <<"10**(-ph)", ph>>,
                      H2CO3 |-> TimesCT(ct, alpha.a0),
                      HCO3 |-> TimesCT(ct, alpha.a1),
                      CO3 |-> TimesCT(ct, alpha.a2),
                      OH |-> IF h_zero THEN <<"kw/1e-30">> ELSE <<"kw/h", ph>>],
         alpha |-> alpha,
         \* the divisors: denom as guarded, and max(h, 1e-30)
         divs |-> {GuardedDenom(DenomClass(ka1, h_zero)), "pos"}]

\* the entry: ct, the residual at the two ends, and the branch taken
AqEnter(a) ==
    LET i == a.inp
        path == AqPath(i.f_low, i.f_high)
        b == [a EXCEPT !.ct = ClampCT(i.ct), !.f_low = i.f_low, !.f_high = i.f_high,
                       !.divs = {"pos"}]
    IN  IF path = "bracket-bound"
        THEN [b EXCEPT !.pc = "finish", !.solver = path,
                       !.ph_root = <<"grid", IF i.f_low = 0 THEN 0 ELSE AqWidth>>]
        ELSE IF path = "quartic-fallback"
        THEN IF QuartRoot(i) = <<>>
             THEN [b EXCEPT !.pc = "raised", !.err = "ValueError"]
             ELSE [b EXCEPT !.pc = "finish", !.solver = path, !.ph_root = QuartRoot(i)]
        ELSE [b EXCEPT !.pc = "bisect", !.solver = path, !.lo = 0, !.hi = AqWidth]

\* one pass of "for _ in range(200)", or its else clause
AqBisectPass(a) ==
    LET mid == Mid(a.lo, a.hi)
        f_mid == AqSign(a.inp, mid)
    IN  IF a.it >= AqMaxIter
        THEN [a EXCEPT !.pc = "finish", !.ph_root = <<"grid", mid>>]
        ELSE IF f_mid = 0 \/ a.hi - a.lo < AqTol
        THEN [a EXCEPT !.pc = "finish", !.ph_root = <<"grid", mid>>, !.it = @ + 1]
        ELSE IF a.f_low * f_mid <= 0
        THEN [a EXCEPT !.hi = mid, !.f_high = f_mid, !.it = @ + 1]
        ELSE [a EXCEPT !.lo = mid, !.f_low = f_mid, !.it = @ + 1]

\* the quartic cross-check, the species and the returned record
AqReturn(a) ==
    LET i == a.inp
        hz == i.h_zero /\ a.solver = "bisection-charge-balance"
        sp == species_from_ph(a.ct, a.ph_root, i.ka1, hz)
    IN  [a EXCEPT !.pc = "returned",
                  !.quartic_ph = IF i.validate THEN QuartRoot(i) ELSE <<>>,
                  !.species = sp.species, !.alpha = sp.alpha,
                  !.divs = @ \cup sp.divs \cup
                           (IF hz THEN {} ELSE {GuardedDenom(DenomClass(i.ka1, hz)), "pos"})]

AqCall ==
    /\ aq.pc = "idle"
    /\ \E i \in AqInputs : aq' = [AqIdle EXCEPT !.pc = "start", !.inp = i]
    /\ UNCHANGED <<gui, ui, parseVars, rootVars, solveVars, simVars>>

AqBracket ==
    /\ aq.pc = "start"
    /\ aq' = AqEnter(aq)
    /\ UNCHANGED <<gui, ui, parseVars, rootVars, solveVars, simVars>>

AqBisect ==
    /\ aq.pc = "bisect"
    /\ aq' = AqBisectPass(aq)
    /\ UNCHANGED <<gui, ui, parseVars, rootVars, solveVars, simVars>>

AqFinish ==
    /\ aq.pc = "finish"
    /\ aq' = AqReturn(aq)
    /\ UNCHANGED <<gui, ui, parseVars, rootVars, solveVars, simVars>>

----------------------------------------------------------------------------
(* .tmp_patch_validation/patched_blocks.py: adaptive refresh routing *)
(* A signature is 0 for None (or an absent key) and a positive number else. *)

Layers == {"data", "layout", "elements", "trace"}

NotADict == [notdict |-> TRUE]

NoBaseline == [nomapping |-> TRUE]

AllDirty == [l \in Layers |-> TRUE]

GuiIdle == [pc |-> "idle", args |-> <<>>, dirty_flags |-> NotADict, decision |-> <<>>]

\* what self._plot_dirty_flags holds for a plot id
FlagStores ==
    {NotADict, <<>>} \cup [Layers -> BOOLEAN] \cup [{"data", "trace"} -> BOOLEAN]

\* frame is None, has no bundle, or has one of these bundles
Baselines ==
    {NoBaseline, [l \in Layers |-> 1], [l \in Layers |-> 0],
     [l \in Layers |-> IF l = "layout" THEN 2 ELSE 1],
     [l \in Layers |-> IF l = "trace" THEN 2 ELSE 1]}

\* _capture_plot_refresh_signature_bundle: elements is never None
CurrentBundles == {b \in [Layers -> {0, 1}] : b["elements"] = 1}

\* _ensure_plot_dirty_flags: None for an empty plot id, else the stored
\* dict with every absent flag set to True
ensure_plot_dirty_flags(plot_id, store) ==
    IF plot_id = "" THEN NotADict
    ELSE IF store = NotADict THEN AllDirty
    ELSE [l \in Layers |-> IF l \in DOMAIN store THEN store[l] ELSE TRUE]

\* bool(flags.get("dirty_...", False)) if isinstance(flags, dict) else True
DirtyOf(flags, l) == IF flags = NotADict THEN TRUE ELSE flags[l]

\* the per-layer change booleans
ChangedOf(flags, baseline, current) ==
    [l \in Layers |->
        IF baseline = NoBaseline THEN TRUE
        ELSE DirtyOf(flags, l) \/ current[l] # baseline[l]]

\* a variant whose in-place branch does not look at plot_key
ChoosePath_AnyKey(force_full_rebuild, ch, plot_key) ==
    IF force_full_rebuild THEN "full_async_refresh"
    ELSE IF \A l \in Layers : ~ch[l] THEN "no_change_fast_reveal"
    ELSE IF ~ch["data"] /\ ~ch["trace"] /\ (ch["layout"] \/ ch["elements"])
    THEN "in_place_display_apply"
    ELSE "full_async_refresh"

\* the if / elif chain that sets path
ChoosePath(force_full_rebuild, ch, plot_key) ==
    IF force_full_rebuild THEN "full_async_refresh"
    ELSE IF \A l \in Layers : ~ch[l] THEN "no_change_fast_reveal"
    ELSE IF /\ plot_key # "fig_combined"
            /\ ~ch["data"] /\ ~ch["trace"]
            /\ (ch["layout"] \/ ch["elements"])
    THEN "in_place_display_apply"
    ELSE "full_async_refresh"

\* _resolve_plot_refresh_adaptive_decision, given what the flags helper returned
resolve_plot_refresh_adaptive_decision(flags, baseline, current, plot_key, force) ==
    LET ch == ChangedOf(flags, baseline, current)
    IN  [path |-> ChoosePath(force, ch, plot_key),
         changed |-> ch,
         current_bundle |-> current,
         baseline_available |-> baseline # NoBaseline]

\* the four decisions of _regression_test_adaptive_refresh_decision_routing
RegressionPaths ==
    LET bundle == [l \in Layers |-> 1]
        clean == [l \in Layers |-> FALSE]
        D(flags, key) ==
            resolve_plot_refresh_adaptive_decision(flags, bundle, bundle, key, FALSE).path
    IN  << D(clean, "fig1"),
           D([clean EXCEPT !["layout"] = TRUE], "fig1"),
           D([clean EXCEPT !["trace"] = TRUE], "fig1"),
           D([clean EXCEPT !["layout"] = TRUE], "fig_combined") >>

ResolveDecision ==
    /\ gui.pc = "idle"
    /\ \E force \in BOOLEAN, plot_key \in {"fig1", "fig_combined"},
          plot_id \in {"", "fig"}, store \in FlagStores,
          baseline \in Baselines, current \in CurrentBundles :
          LET flags == ensure_plot_dirty_flags(plot_id, store)
          IN  gui' = [pc |-> "decided",
                      args |-> [force_full_rebuild |-> force, plot_key |-> plot_key,
                                plot_id |-> plot_id, baseline |-> baseline,
                                current |-> current, flags |-> flags],
                      dirty_flags |-> IF plot_id = "" THEN store ELSE flags,
                      decision |-> resolve_plot_refresh_adaptive_decision(
                                       flags, baseline, current, plot_key, force)]
    /\ UNCHANGED <<aq, ui, parseVars, rootVars, solveVars, simVars>>

\* The loop of simulate_mode_absorbed as it runs on: of the rows only the
\* newest is kept here, k is the parity of the number of passes made, and g,
\* a float, stops changing once it is so far below 0 that g + step_g = g.
GFloor == 0 - MaxTotal - 1

AbsorbedLoopPass ==
    /\ sim.pc = "running"
    /\ sim.mode = "absorbed"
    /\ \E s \in {SimStep(env, params.store, [sim EXCEPT !.out = <<>>])} :
          sim' = IF s.pc = "running"
                 THEN [s EXCEPT !.k = (sim.k + 1) % 2, !.g = Max2(@, GFloor)]
                 ELSE [s EXCEPT !.out = sim.out]
    /\ UNCHANGED <<mn, parseVars, rootVars, solveVars, otherVars>>

----------------------------------------------------------------------------
(* .tmp_patch_validation/patched_blocks.py: UnifiedApp._force_plot_refresh *)
(* One plot tab.  A run of the handler is one action; what it did is kept   *)
(* as the sequence of its steps.  after_idle callbacks wait in a queue, the *)
(* 350 ms timeout is a timer that is armed or not.                          *)

Clean == [l \in Layers |-> FALSE]

Bundle1 == [l \in Layers |-> 1]

PlotKeys == {"fig1", "fig_peaks", "fig_combined"}

NoRun == [by |-> "none", force |-> FALSE, path |-> "", fast |-> "not_run", steps |-> <<>>]

TabIdle ==
    [plot_key |-> "fig1", usable |-> TRUE, wait |-> FALSE, req |-> FALSE,
     timer |-> FALSE, idle |-> <<>>, flags |-> AllDirty, baseline |-> NoBaseline,
     requests |-> 0, call |-> NoRun]

\* what a run meets: whether the fast path completes, fails inside (it then
\* returns False) or raises; whether canvas.get_tk_widget() gives a widget;
\* whether the snapshot or the render start raises
RunEnvs == [fast : {"ok", "fails", "raises"}, widget : BOOLEAN, render_raises : BOOLEAN]

\* the steps of the full refresh pipeline
PipelineSteps ==
    {"clear_combined_state", "install_geometry_wait", "capture_legend",
     "refresh_canvas_display", "capture_snapshot", "start_core_render",
     "start_combined_render", "fallback_finalize"}

\* _execute_adaptive_refresh_path: "true" when a fast path was executed
execute_adaptive_refresh_path(path, e) ==
    IF e.fast = "raises" THEN "raised"
    ELSE IF path \in {"no_change_fast_reveal", "in_place_display_apply"} /\ e.fast = "ok"
    THEN "true"
    ELSE "false"

\* a variant that goes on after a fast path
ReturnsAfterFast_Never(fast) == FALSE

\* "if self._execute_adaptive_refresh_path(...): return"
ReturnsAfterFast(fast) == fast = "true"

\* _cleanup_waiters: the binds and the timeout go, the wait state is cleared;
\* an idle probe of this wait that is still queued finds it inactive
cleanup_waiters(u) ==
    [u EXCEPT !.wait = FALSE, !.timer = FALSE,
              !.idle = [i \in 1..Len(@) |->
                           IF @[i].k = "signal" THEN [@[i] EXCEPT !.live = FALSE]
                           ELSE @[i]]]

\* _resume_refresh(reason) of the active wait: clean up and re-enter
\* _force_plot_refresh from the idle queue with the arguments of the request
resume_refresh(u, reason) ==
    IF ~u.wait THEN u
    ELSE LET c == cleanup_waiters(u)
         IN  [c EXCEPT !.idle = Append(@, [k |-> "reenter", live |-> TRUE,
                                          force |-> u.req, reason |-> reason])]

\* _on_geometry_signal of the active wait
on_geometry_signal(u) == IF u.usable THEN resume_refresh(u, "ready") ELSE u

\* the tail of _force_plot_refresh: legend capture, display refresh, snapshot
\* and render start
RenderSteps(key, e) ==
    (IF key = "fig_combined" THEN <<"capture_legend">> ELSE <<>>)
    \o <<"refresh_canvas_display", "capture_snapshot">>
    \o (IF e.render_raises THEN <<"fallback_finalize">>
        ELSE IF key = "fig_combined" THEN <<"start_combined_render">>
        ELSE <<"start_core_render">>)

\* one run of _force_plot_refresh(frame, canvas, force_full_rebuild = force)
force_plot_refresh(u, by, force, e) ==
    LET key == u.plot_key
        d == resolve_plot_refresh_adaptive_decision(u.flags, u.baseline, Bundle1, key, force)
        fast == execute_adaptive_refresh_path(d.path, e)
        s0 == (IF e.widget THEN <<"install_overlay">> ELSE <<>>)
              \o <<"overlay_progress", "resolve_decision", "execute_adaptive_path">>
        \* a fast path that ran cleared the dirty flags and recorded the baseline
        u1 == IF fast = "true" THEN [u EXCEPT !.flags = Clean, !.baseline = Bundle1] ELSE u
        run(steps) == [by |-> by, force |-> force, path |-> d.path, fast |-> fast,
                       steps |-> steps]
        s1 == s0 \o (IF force /\ key = "fig_combined"
                     THEN <<"clear_combined_state">> ELSE <<>>)
    IN  IF ReturnsAfterFast(fast)
        THEN [u1 EXCEPT !.call = run(s0)]
        ELSE IF key = "fig_combined" /\ e.widget /\ ~u1.usable
        THEN \* width_px <= 2 or height_px <= 2
             IF u1.wait
             THEN [u1 EXCEPT !.call = run(s1)]
             ELSE [u1 EXCEPT !.call = run(s1 \o <<"install_geometry_wait">>),
                             !.wait = TRUE, !.req = force, !.timer = TRUE,
                             !.idle = Append(@, [k |-> "signal", live |-> TRUE,
                                                 force |-> force, reason |-> ""])]
        ELSE [u1 EXCEPT !.call = run(s1 \o RenderSteps(key, e))]

\* a refresh asked for from outside (the Refresh button, an apply action)
RefreshRequest ==
    /\ ui.requests < MaxRequests
    /\ \E force \in BOOLEAN, e \in RunEnvs :
          ui' = [force_plot_refresh(ui, "request", force, e) EXCEPT !.requests = @ + 1]
    /\ UNCHANGED <<aq, gui, parseVars, rootVars, solveVars, simVars>>

\* the event loop runs the oldest idle callback
RunIdle ==
    /\ ui.idle # <<>>
    /\ LET h == Head(ui.idle)
           u == [ui EXCEPT !.idle = Tail(@)]
       IN  IF h.k = "signal"
           THEN ui' = IF h.live THEN on_geometry_signal(u) ELSE u
           ELSE \E e \in RunEnvs : ui' = force_plot_refresh(u, h.reason, h.force, e)
    /\ UNCHANGED <<aq, gui, parseVars, rootVars, solveVars, simVars>>

\* the 350 ms timeout of the active wait fires
TimeoutFires ==
    /\ ui.timer
    /\ ui' = resume_refresh(ui, "timeout")
    /\ UNCHANGED <<aq, gui, parseVars, rootVars, solveVars, simVars>>

\* a <Configure> event: the widget has a new size, and the handlers bound by
\* an active wait probe it
Configure ==
    /\ LET u == [ui EXCEPT !.usable = ~@]
       IN  ui' = IF ui.wait THEN on_geometry_signal(u) ELSE u
    /\ UNCHANGED <<aq, gui, parseVars, rootVars, solveVars, simVars>>

\* another handler marks a layer of the plot dirty
MarkDirty ==
    /\ \E l \in {"data", "layout"} :
          /\ ~ui.flags[l]
          /\ ui' = [ui EXCEPT !.flags[l] = TRUE]
    /\ UNCHANGED <<aq, gui, parseVars, rootVars, solveVars, simVars>>

----------------------------------------------------------------------------
(* Specifications *)

\* the parser, run on the reference table after up to MaxEdits edits
InitParse ==
    /\ lines = ReferenceTable
    /\ edits = 0
    /\ params = NotCalled
    /\ query = NoQuery
    /\ gcall = NoCall
    /\ fun = NoResidual
    /\ rf = RootIdle
    /\ env = NoEnv
    /\ sv = SolverIdle
    /\ sim = SimIdle
    /\ mn = MainIdle
    /\ aq = AqIdle
    /\ gui = GuiIdle
    /\ ui = TabIdle

NextParse == EditTable(MaxEdits) \/ LoadParams \/ LookupStore

SpecParse == InitParse /\ [][NextParse]_vars

\* the activity model, on the store of the reference table or of the
\* reference table with one edit
InitGamma ==
    /\ lines \in {ReferenceTable} \cup EditedTables(ReferenceTable)
    /\ edits = 0
    /\ params = NotCalled
    /\ query = NoQuery
    /\ gcall = NoCall
    /\ fun = NoResidual
    /\ rf = RootIdle
    /\ env = NoEnv
    /\ sv = SolverIdle
    /\ sim = SimIdle
    /\ mn = MainIdle
    /\ aq = AqIdle
    /\ gui = GuiIdle
    /\ ui = TabIdle

NextGamma == LoadParams \/ CallGammas

SpecGamma == InitGamma /\ [][NextGamma]_vars

\* one call of the root finder on each residual
InitRoot ==
    /\ lines = ReferenceTable
    /\ edits = 0
    /\ params = NotCalled
    /\ query = NoQuery
    /\ gcall = NoCall
    /\ fun \in Residuals
    /\ rf = RootStart
    /\ env = NoEnv
    /\ sv = SolverIdle
    /\ sim = SimIdle
    /\ mn = MainIdle
    /\ aq = AqIdle
    /\ gui = GuiIdle
    /\ ui = TabIdle

NextRoot == RootAdvance

SpecRoot == InitRoot /\ [][NextRoot]_vars /\ WF_vars(NextRoot)

\* solver calls, step by step, in each environment
InitSolve ==
    /\ lines = ReferenceTable
    /\ edits = 0
    /\ params = [called |-> TRUE] @@ read_pitzer_params(ReferenceTable)
    /\ query = NoQuery
    /\ gcall = NoCall
    /\ fun = NoResidual
    /\ rf = RootIdle
    /\ env \in Envs
    /\ sv = SolverIdle
    /\ sim = SimIdle
    /\ mn = MainIdle
    /\ aq = AqIdle
    /\ gui = GuiIdle
    /\ ui = TabIdle

\* runs of simulate_mode_absorbed, pass after pass with no bound on the rows
NextAbsorbed == StartAbsorbed \/ AbsorbedLoopPass

\* a loop that can make another pass makes it
SpecAbsorbed == InitSolve /\ [][NextAbsorbed]_vars /\ WF_vars(AbsorbedLoopPass)

NextSolve == CallSolver \/ SolverAdvance \/ StartCycles \/ StartAbsorbed \/ SimAdvance

SpecSolve == InitSolve /\ [][NextSolve]_vars

\* calls of the dilute closed-system solver
InitDilute ==
    /\ lines = ReferenceTable
    /\ edits = 0
    /\ params = NotCalled
    /\ query = NoQuery
    /\ gcall = NoCall
    /\ fun = NoResidual
    /\ rf = RootIdle
    /\ env = NoEnv
    /\ sv = SolverIdle
    /\ sim = SimIdle
    /\ mn = MainIdle
    /\ aq = AqIdle
    /\ gui = GuiIdle
    /\ ui = TabIdle

NextDilute == AqCall \/ AqBracket \/ AqBisect \/ AqFinish

SpecDilute == InitDilute /\ [][NextDilute]_vars

\* refresh decisions of the plotting program
InitRoute ==
    /\ lines = ReferenceTable
    /\ edits = 0
    /\ params = NotCalled
    /\ query = NoQuery
    /\ gcall = NoCall
    /\ fun = NoResidual
    /\ rf = RootIdle
    /\ env = NoEnv
    /\ sv = SolverIdle
    /\ sim = SimIdle
    /\ mn = MainIdle
    /\ aq = AqIdle
    /\ gui = GuiIdle
    /\ ui = TabIdle

NextRoute == ResolveDecision

SpecRoute == InitRoute /\ [][NextRoute]_vars

\* refreshes of one plot tab; the tab has been rendered before or not
InitRefresh ==
    /\ lines = ReferenceTable
    /\ edits = 0
    /\ params = NotCalled
    /\ query = NoQuery
    /\ gcall = NoCall
    /\ fun = NoResidual
    /\ rf = RootIdle
    /\ env = NoEnv
    /\ sv = SolverIdle
    /\ sim = SimIdle
    /\ mn = MainIdle
    /\ aq = AqIdle
    /\ gui = GuiIdle
    /\ \E key \in PlotKeys, usable \in BOOLEAN, rendered \in BOOLEAN :
          ui = [TabIdle EXCEPT !.plot_key = key, !.usable = usable,
                               !.flags = IF rendered THEN Clean ELSE AllDirty,
                               !.baseline = IF rendered THEN Bundle1 ELSE NoBaseline]

NextRefresh == RefreshRequest \/ RunIdle \/ TimeoutFires \/ Configure \/ MarkDirty

\* the Tk event loop runs every callback that is due
SpecRefresh ==
    InitRefresh /\ [][NextRefresh]_vars /\ WF_vars(RunIdle) /\ WF_vars(TimeoutFires)

\* runs of main
InitMain ==
    /\ lines \in MainTables
    /\ edits = 0
    /\ params = NotCalled
    /\ query = NoQuery
    /\ gcall = NoCall
    /\ fun = NoResidual
    /\ rf = RootIdle
    /\ env \in MainEnvs
    /\ sv = SolverIdle
    /\ sim = SimIdle
    /\ mn = MainIdle
    /\ aq = AqIdle
    /\ gui = GuiIdle
    /\ ui = TabIdle

NextMain ==
    \/ MainStart \/ MainCheckFile \/ MainLoad
    \/ MainTest1 \/ MainTest2 \/ MainTest3 \/ MainSimPass \/ MainTest3End
    \/ MainSimulate \/ MainPrintHeader \/ MainPrintRow

SpecMain == InitMain /\ [][NextMain]_vars

----------------------------------------------------------------------------
(* Properties of the parser and of the store *)

\* the section line and the five markers, read off the text
HasPitzerLine == \E i \in 1..Len(lines) : lines[i].toks = <<"PITZER">> /\ ~lines[i].ws

HasMarker(key) ==
    \E i \in 1..Len(lines) :
        /\ lines[i].toks = <<key>>
        /\ \E j \in 1..i : lines[j].toks = <<"PITZER">> /\ ~lines[j].ws

\* the rows of a block that tabulate a coefficient for the species set
\* `labels`: the labels in any order, then a number
TabulatingRows(rows, labels) ==
    {i \in 1..Len(rows) :
        /\ Len(rows[i]) > Cardinality(labels)
        /\ {rows[i][j] : j \in 1..Cardinality(labels)} = labels
        /\ FloatOk(ReplaceE(rows[i][Cardinality(labels) + 1]))}

\* the values those rows give: the number right after the labels
TabulatedValues(rows, labels) ==
    {Float(ReplaceE(rows[i][Cardinality(labels) + 1])) : i \in TabulatingRows(rows, labels)}

KeySet(k) == {k[i] : i \in 1..Len(k)}

\* nothing that the program requires is missing from the text
NothingMissing ==
    /\ HasPitzerLine
    /\ \A k \in 1..Len(RequiredMarkers) : HasMarker(RequiredMarkers[k])
    /\ LET st == PitzerStart(lines)
       IN  /\ \A k \in PairKeys :
                 /\ TabulatingRows(B0Rows(lines, st), KeySet(k)) # {}
                 /\ TabulatingRows(B1Rows(lines, st), KeySet(k)) # {}
           /\ TabulatingRows(ThetaRows(lines, st), KeySet(ThetaKey)) # {}
           /\ TabulatingRows(PsiRows(lines, st), KeySet(PsiKey1)) # {}
           /\ TabulatingRows(PsiRows(lines, st), KeySet(PsiKey2)) # {}

\* C1: construction is fail-fast. When the 'PITZER' line, one of the markers
\* -B0, -B1, -C0, -THETA, -PSI, or a B0, B1, THETA or PSI row of the fixed
\* species set is missing, read_pitzer_params raises and returns no store;
\* in a store it does return, every B0, B1, THETA and PSI value is a value
\* tabulated in its block, never a default.
C1_FailFast ==
    params.called =>
        /\ ~NothingMissing => ~params.ok /\ params.store = NoStore /\ params.err # ""
        /\ params.ok =>
              LET st == PitzerStart(lines)
              IN  /\ \A k \in PairKeys :
                        /\ params.store.beta0[k]
                              \in TabulatedValues(B0Rows(lines, st), KeySet(k))
                        /\ params.store.beta1[k]
                              \in TabulatedValues(B1Rows(lines, st), KeySet(k))
                  /\ params.store.theta[ThetaKey]
                        \in TabulatedValues(ThetaRows(lines, st), KeySet(ThetaKey))
                  /\ \A k \in {PsiKey1, PsiKey2} :
                        params.store.psi[k]
                            \in TabulatedValues(PsiRows(lines, st), KeySet(k))

\* C1 witness: the parser has raised on an edited table
C1_Witness == params.called /\ ~params.ok /\ edits > 0 /\ ~NothingMissing

\* C3: a missing C-phi is not an error. When nothing required is missing,
\* construction succeeds whatever the C0 block holds, and the stored C-phi of
\* a pair with no numeric C0 row is 0.
C3_CphiDefaultsToZero ==
    params.called =>
        /\ NothingMissing => params.ok
        /\ params.ok =>
              \A k \in PairKeys :
                  TabulatingRows(C0Rows(lines, PitzerStart(lines)), KeySet(k)) = {}
                      => params.store.cphi[k] = 0

\* C3 witness: a store was built from a table whose Na+/OH- C0 row was
\* removed or made non-numeric, and its C-phi is 0
C3_Witness ==
    /\ params.called /\ params.ok /\ edits > 0
    /\ TabulatingRows(C0Rows(lines, PitzerStart(lines)), {"Na+", "OH-"}) = {}
    /\ params.store.cphi[<<"Na+", "OH-">>] = 0
    /\ TabulatingRows(B0Rows(lines, PitzerStart(lines)), {"Na+", "OH-"}) # {}

\* a line cut after its first numeric token
RECURSIVE FirstNumericIdx(_)
FirstNumericIdx(t) ==
    IF t = <<>> THEN 0
    ELSE IF FloatOk(ReplaceE(Head(t))) THEN 1
    ELSE IF FirstNumericIdx(Tail(t)) = 0 THEN 0
    ELSE 1 + FirstNumericIdx(Tail(t))

CutAfterFirstNumber(l) ==
    IF FirstNumericIdx(l.toks) = 0 \/ is_marker(l) THEN l
    ELSE [l EXCEPT !.toks = SubSeq(l.toks, 1, FirstNumericIdx(l.toks))]

WithoutTrailingTokens(ls) == [i \in 1..Len(ls) |-> CutAfterFirstNumber(ls[i])]

\* C5: numeric parsing takes the leading numeric tokens and stops at the
\* first token that is not a number; the tokens after a row's first number
\* neither make the parse fail nor change the value taken: the outcome is
\* that of the same text with every row cut after its first number.
C5_TrailingTokensIgnored ==
    /\ \A i \in 1..Len(lines) : \A j \in 1..(Len(lines[i].toks) + 1) :
          LET parts == SubSeq(lines[i].toks, j, Len(lines[i].toks))
              nums == parse_numeric_fields(parts)
          IN  /\ Len(nums) <= Len(parts)
              /\ \A k \in 1..Len(nums) :
                    FloatOk(ReplaceE(parts[k])) /\ nums[k] = Float(ReplaceE(parts[k]))
              /\ Len(nums) < Len(parts) => ~FloatOk(ReplaceE(parts[Len(nums) + 1]))
    /\ params.called =>
          /\ params.ok = read_pitzer_params(WithoutTrailingTokens(lines)).ok
          /\ params.store = read_pitzer_params(WithoutTrailingTokens(lines)).store

\* C5 witness: a store was built from a table in which an annotation follows
\* the number of a row, beside the reference row that has four numeric columns
C5_Witness ==
    /\ params.called /\ params.ok
    /\ \E i \in 1..Len(lines) :
          /\ Len(lines[i].toks) >= 4
          /\ lines[i].toks[Len(lines[i].toks)] = "n/a"
          /\ FloatOk(ReplaceE(lines[i].toks[Len(lines[i].toks) - 1]))
    /\ \E i \in 1..Len(lines) :
          /\ Len(lines[i].toks) = 6
          /\ params.store.beta0[<<"Na+", "OH-">>] = Float(ReplaceE(lines[i].toks[3]))

\* C4: look-up is symmetric in its unordered arguments: a look-up with the
\* arguments exchanged gives the same result.
C4_LookupSymmetric == query.kind # "none" => query.fwd = query.rev

\* the row matching of lookup_pair, lookup_theta and lookup_psi does not
\* depend on the order of the labels (the part of C4 that the parser meets)
RowMatchSymmetric ==
    \A i \in 1..Len(lines) :
        LET r == lines[i].toks
        IN  /\ Len(r) >= 3 =>
                  \A a \in Species, b \in Species :
                      PairRowMatches(r, a, b) = PairRowMatches(r, b, a)
            /\ Len(r) >= 4 =>
                  \A a \in Species, b \in Species, c \in Species :
                      PsiRowMatches(r, a, b, c) = PsiRowMatches(r, c, b, a)

\* C2: every coefficient pitzer_gammas looks up is present in a constructed
\* store: no call ends with a missing key, whatever species are present.
C2_NoMissingKey == gcall.called => gcall.res.err = ""

\* C2 witness: a call with every species present read all twelve
\* coefficients and returned
C2_Witness ==
    /\ gcall.called /\ ~gcall.res.dilute /\ gcall.res.err = ""
    /\ Cardinality(gcall.res.reads) = 3 * Cardinality(ANIONS) + 3

----------------------------------------------------------------------------
(* Properties of the root finder *)

RootBudget ==
    /\ rf.scanned <= NScan
    /\ rf.k <= BisectSteps
    /\ rf.evals = rf.scanned + rf.k
    /\ rf.evals <= NScan + BisectSteps
    /\ rf.pc \in {"bisect", "returned", "raised"} => rf.scanned = NScan
    /\ rf.pc = "returned" => rf.k \in {0, BisectSteps}

\* C10: the iteration caps of the inner root finder are hard and exact: a
\* call evaluates the residual at the 240 scan points, then makes at most 90
\* bisection steps of one evaluation each, so never more than 240 + 90
\* evaluations, and it always ends, returning or raising.
C10_RootFinderBudget == []RootBudget /\ <>RootTerminated(rf)

\* C10 witness: a call that returned after the scan and 90 bisection steps
C10_Witness ==
    rf.pc = "returned" /\ rf.k = BisectSteps /\ rf.evals = NScan + BisectSteps

\* the call taken at once ends as the stepwise call does
RootRunAgrees ==
    RootTerminated(rf) =>
        /\ _find_root_bisect_on_log10(fun).pc = rf.pc
        /\ _find_root_bisect_on_log10(fun).ret = rf.ret
        /\ _find_root_bisect_on_log10(fun).evals = rf.evals

----------------------------------------------------------------------------
(* The equilibrium solvers *)

SolverEntered == sv.pc \notin {"idle", "start"}

BelowHalf == 2 * sv.CT_m <= sv.NaT_m

\* C7 (as stated): whenever the capped total carbon satisfies
\* CT <= 0.5 * Na_total, solve_pH_for_total_carbon returns without a call of
\* the root finder and without a pass of the outer loop, with
\* OH- = max(0, Na_total - 2 CT), CO3-2 = CT, HCO3- = 0, CO2 = 0 and
\* Na+ = Na_total; whenever CT > 0.5 * Na_total the general branch is taken.
C7_ShortcutAsStated ==
    (sv.variant = "total_carbon" /\ SolverEntered) =>
        /\ BelowHalf =>
              /\ sv.pc = "returned" /\ sv.roots = 0 /\ sv.it = 0
              /\ sv.comp["OH-"] = Num(Max2(0, sv.NaT_m - 2 * sv.CT_m))
              /\ sv.comp["CO3-2"] = Num(sv.CT_m)
              /\ sv.comp["HCO3-"] = Num(0)
              /\ sv.comp["CO2"] = Num(0)
              /\ sv.comp["Na+"] = Num(sv.NaT_m)
        /\ ~BelowHalf =>
              /\ sv.pc \in {"loop", "returned", "raised"}
              /\ sv.pc \in {"returned", "raised"} => sv.roots >= 1

\* C7 (amended): as stated, except that the returned CO3-2 is max(0, CT):
\* it is CT for CT >= 0 and 0 for a negative CT.
C7_Shortcut ==
    (sv.variant = "total_carbon" /\ SolverEntered) =>
        /\ BelowHalf =>
              /\ sv.pc = "returned" /\ sv.roots = 0 /\ sv.it = 0
              /\ sv.comp["OH-"] = Num(Max2(0, sv.NaT_m - 2 * sv.CT_m))
              /\ sv.comp["CO3-2"] = Num(IF sv.CT_m >= 0 THEN sv.CT_m ELSE 0)
              /\ sv.comp["HCO3-"] = Num(0)
              /\ sv.comp["CO2"] = Num(0)
              /\ sv.comp["Na+"] = Num(sv.NaT_m)
        /\ ~BelowHalf =>
              /\ sv.pc \in {"loop", "returned", "raised"}
              /\ sv.pc \in {"returned", "raised"} => sv.roots >= 1

\* the shortcut has returned for a negative total carbon
C7_Witness ==
    /\ sv.variant = "total_carbon" /\ sv.pc = "returned"
    /\ sv.CT_m < 0 /\ sv.NaT_m > 0 /\ sv.roots = 0
    /\ sv.comp["CO3-2"] = Num(0)

\* the i-th row of a cycles run was solved with the ledger at or above NaT_m
LedgerFull(i) == sim.out[i].CO2_charged_g >= sim.NaT_m

Chemistry(row) ==
    <<row.pH, row.m_Na, row.m_OH, row.m_HCO3, row.m_CO3, row.m_CO2>>

\* C8: the total carbon the solver uses never exceeds Na_total; for every
\* requested CT >= Na_total what the call returns is what it returns for
\* CT = Na_total; all rows of a pressure-cycling run that were solved with the
\* ledger at or above Na_total carry the same pH and species molalities.
C8_CapacityCap ==
    /\ (sv.variant = "total_carbon" /\ SolverEntered) => sv.CT_m <= sv.NaT_m
    /\ (sv.variant = "total_carbon" /\ SolverTerminated(sv) /\ sv.req >= sv.NaT_m) =>
          Result(sv) =
              Result(solve_pH_for_total_carbon(env, params.store, sv.NaT_m, sv.NaT_m))
    /\ sim.mode = "cycles" =>
          \A i, j \in 1..Len(sim.out) :
              (LedgerFull(i) /\ LedgerFull(j)) =>
                  Chemistry(sim.out[i]) = Chemistry(sim.out[j])

\* a cycles run has two rows after its ledger passed a positive Na_total
C8_Witness ==
    /\ sim.mode = "cycles" /\ sim.NaT_m > 0 /\ Len(sim.out) >= 2
    /\ LedgerFull(1)
    /\ sim.out[1].CO2_charged_g < sim.out[2].CO2_charged_g

\* the iteration after which the outer loop is due to end
ExpectedEnd == IF env.conv \in 1..MaxIter THEN env.conv ELSE MaxIter

GeneralBranch ==
    SolverEntered /\ (sv.variant = "fixed_pco2" \/ ~BelowHalf)

\* C9: in both solver variants the outer loop makes at most 60 passes, ends
\* with the first pass after which the ln(gamma) test holds, and, when 60
\* passes end without it, the solver returns the last iterate normally.
C9_OuterLoopBudget ==
    /\ sv.it <= MaxIter
    /\ GeneralBranch =>
          /\ sv.it <= ExpectedEnd
          /\ sv.conv => sv.it = env.conv
          /\ (sv.pc = "loop" /\ sv.it = MaxIter) =>
                SolverStep(env, params.store, sv).pc = "returned"
          /\ sv.pc = "returned" =>
                /\ sv.err = ""
                /\ sv.it = ExpectedEnd
                /\ sv.conv <=> env.conv \in 1..MaxIter
                /\ sv.roots = sv.it
                /\ sv.comp["H+"].g = sv.it - 1
                /\ sv.pH.g = sv.it
          /\ sv.pc = "raised" =>
                sv.err = "RuntimeError" /\ env.failAt = sv.it + 1

\* the fixed-pCO2 solver has returned after 60 passes without convergence
C9_Witness ==
    /\ sv.variant = "fixed_pco2" /\ sv.pc = "returned"
    /\ sv.it = MaxIter /\ ~sv.conv /\ sv.err = ""

\* the total-carbon solver has stopped early, at the pass that converged
C9_EarlyStop ==
    /\ sv.variant = "total_carbon" /\ sv.pc = "returned"
    /\ sv.conv /\ sv.it = env.conv /\ sv.it < MaxIter

----------------------------------------------------------------------------
(* main *)

LoadFailed == params.called /\ ~params.ok

\* C6: if the construction of the parameter store fails, no solver call is
\* made, no internal test is run and no trajectory row is computed or
\* printed; the store is loaded before the first solver call.
C6_FailFast ==
    /\ LoadFailed =>
          /\ mn.solves = 0 /\ mn.tests = 0 /\ mn.printed = 0
          /\ sim = SimIdle
          /\ mn.pc = "failed" /\ mn.err = params.err
    /\ (mn.solves > 0 \/ mn.tests > 0 \/ sim # SimIdle \/ mn.printed > 0) =>
          params.called /\ params.ok

\* main has ended on a table that read_pitzer_params rejects
C6_Witness ==
    /\ LoadFailed /\ mn.pc = "failed" /\ mn.info
    /\ mn.err = params.err /\ params.err # ""

\* main has printed rows after a successful load and its internal tests
C6_RowsPrinted ==
    /\ mn.pc = "done" /\ mn.printed > 0 /\ mn.tests > 0 /\ params.ok

----------------------------------------------------------------------------
(* Failures of the root finder *)

\* the CT_m that the next pass of the running simulation hands to the solver
NextCT(s) == IF s.mode = "cycles" THEN s.CT_m + s.dn ELSE s.g

\* the residual of outer pass j has no sign change at the scan points
NoBracket(j) == _find_root_bisect_on_log10(ResidualAt(env, j)).pc = "raised"

\* C11: a bracketing failure is never swallowed: when the root finder finds
\* no sign change it raises, the solver ends with that error, the simulation
\* that called the solver ends with that error, and no row is appended for
\* the step.
C11_BracketFailurePropagates ==
    /\ (sv.pc = "loop" /\ LoopContinues(sv.it, sv.conv) /\ NoBracket(sv.it + 1)) =>
          /\ SolverStep(env, params.store, sv).pc = "raised"
          /\ SolverStep(env, params.store, sv).err = "RuntimeError"
    /\ sv.pc = "raised" => sv.err = "RuntimeError" /\ NoBracket(sv.it + 1)
    /\ (sim.pc = "running" /\ LoopHasNext(sim)) =>
          LET r == solve_pH_for_total_carbon(env, params.store, NextCT(sim), sim.NaT_m)
              t == SimStep(env, params.store, sim)
          IN  /\ r.pc = "raised" => t.pc = "raised" /\ t.err = r.err /\ t.out = sim.out
              /\ r.pc = "returned" => t.pc = "running" /\ Len(t.out) = Len(sim.out) + 1
    /\ sim.pc = "raised" => sim.err = "RuntimeError"
    /\ \A i \in 1..Len(sim.out) : sim.out[i].pH.k # "absent"

\* a cycles run has ended with the root finder's error after an earlier row
C11_Witness ==
    /\ sim.pc = "raised" /\ sim.mode = "cycles" /\ sim.err = "RuntimeError"
    /\ Len(sim.out) >= 1 /\ sim.k = Len(sim.out) + 1

----------------------------------------------------------------------------
(* The trajectories of the two simulations *)

\* the rows appended so far are one per pass made
OnePerPass(s) ==
    IF s.mode = "cycles"
    THEN Len(s.out) = (IF s.pc = "raised" THEN s.k - 1 ELSE s.k)
    ELSE s.g = Len(s.out) * s.step

\* C13: the absorbed-mode trajectory starts at CO2_g = 0, each following
\* row's CO2_g is the previous one plus step_g, the rows are in increasing
\* order of CO2_g, no row exceeds the target, and one row is made per step
\* from one solver call on that step's CT_m.
C13_AbsorbedTrajectory ==
    sim.mode = "absorbed" =>
        /\ Len(sim.out) >= 1 => sim.out[1].CO2_g = 0
        /\ \A i \in 2..Len(sim.out) :
              /\ sim.out[i].CO2_g = sim.out[i - 1].CO2_g + sim.step
              /\ sim.out[i].CO2_g >= sim.out[i - 1].CO2_g
        /\ \A i \in 1..Len(sim.out) :
              /\ sim.out[i].CO2_g <= sim.total
              /\ sim.out[i].CT_m = sim.out[i].CO2_g
        /\ OnePerPass(sim)

\* the same for the runs with a positive step_g
C13_ForwardSteps == sim.step > 0 => C13_AbsorbedTrajectory

\* a run with a positive step has returned three rows
C13_ForwardReturned ==
    /\ sim.mode = "absorbed" /\ sim.pc = "returned" /\ sim.step > 0
    /\ Len(sim.out) = MaxTotal + 1

\* the transfer per cycle as computed from the pressure drop, before clamping
RawDn(s) == (MaxDP + 1) - s.P_low

CyclesRows(dn) ==
    /\ sim.dn = dn
    /\ sim.dn >= 0
    /\ Len(sim.out) <= Max2(0, sim.cycles)
    /\ sim.pc = "returned" => Len(sim.out) = Max2(0, sim.cycles)
    /\ OnePerPass(sim)
    /\ sim.CT_m = sim.k * dn
    /\ \A i \in 1..Len(sim.out) :
          /\ sim.out[i].cycle = i
          /\ sim.out[i].CO2_charged_g = i * dn
    \* the newest row (each row is the newest in the state after its pass)
    /\ Len(sim.out) >= 1 =>
          LET i == Len(sim.out)
              r == solve_pH_for_total_carbon(env, params.store, i * dn, sim.NaT_m)
          IN  Chemistry(sim.out[i]) =
                  <<r.pH, r.comp["Na+"], r.comp["OH-"], r.comp["HCO3-"],
                    r.comp["CO3-2"], r.comp["CO2"]>>

\* C14 (as stated): one row per cycle, in order, with indices 1..N and none
\* for N <= 0; the transfer per cycle is dn = dP V / (R T), fixed and never
\* negative; the ledger at cycle k is k dn / kgw and the row's cumulative
\* charge is k dn (times 44.01 g).
C14_CyclesAsStated == sim.mode = "cycles" => CyclesRows(RawDn(sim))

\* C14 (amended): the same with dn = max(0, dP V / (R T)).
C14_CyclesTrajectory == sim.mode = "cycles" => CyclesRows(Max2(0, RawDn(sim)))

\* a cycles run has returned its N rows with a positive transfer
C14_Witness ==
    /\ sim.mode = "cycles" /\ sim.pc = "returned" /\ sim.dn > 0
    /\ Len(sim.out) = MaxCycles /\ sim.out[MaxCycles].cycle = MaxCycles

\* a cycles run with a negative pressure drop has made a row
C14_ClampedRun ==
    sim.mode = "cycles" /\ RawDn(sim) < 0 /\ Len(sim.out) >= 1

----------------------------------------------------------------------------
(* Independence of the steps *)

\* the CT_m of the i-th row of the running simulation
StepCT(i) == IF sim.mode = "cycles" THEN i * sim.dn ELSE (i - 1) * sim.step

\* what a solver call returns when it is the first thing the process does
FreshResult(variant, req, na) ==
    Result(SolverRunFrom(env, params.store,
        [pc |-> "start", variant |-> variant, req |-> req, CT_m |-> 0, NaT_m |-> na,
         it |-> 0, conv |-> FALSE, roots |-> 0, gcalls |-> 0, g |-> 0,
         comp |-> Comp(Absent, Absent, Absent, Absent, Absent, Absent),
         pH |-> Absent, err |-> ""]))

----------------------------------------------------------------------------
(* The activity model as a function *)

ArgTwiceI ==
    LET z2(sp) == CHARGES[sp] * CHARGES[sp]
        v(sp) == IF sp \in DOMAIN gcall.arg THEN gcall.arg[sp] * z2(sp) ELSE 0
    IN  v("Na+") + v("H+") + v("OH-") + v("HCO3-") + v("CO3-2")

\* C17: whenever the ionic strength of the input map is below 1e-30 (a map
\* with no ions included), pitzer_gammas returns gamma = 1.0 for every
\* tracked species and ionic strength 0, evaluates no Debye-Hueckel, binary
\* or ternary term and looks up no parameter.
C17_InfiniteDilution ==
    (gcall.called /\ ArgTwiceI < 2) =>
        /\ gcall.res.err = ""
        /\ DOMAIN gcall.res.gamma = Species
        /\ \A sp \in Species : gcall.res.gamma[sp] = GammaOne
        /\ gcall.res.twiceI = 0
        /\ gcall.res.terms = {}
        /\ gcall.res.reads = {}

\* a call on a map whose only ion is below the epsilon returned all ones
C17_Witness ==
    /\ gcall.called /\ gcall.arg = [sp \in {"H+"} |-> 1]
    /\ gcall.res.dilute /\ gcall.res.gamma["Na+"] = GammaOne

\* a call on the map with no ions returned all ones
C17_EmptyMap == gcall.called /\ gcall.arg = <<>> /\ gcall.res.dilute

----------------------------------------------------------------------------
(* The dilute closed-system solver *)

AqEnded == aq.pc \in {"returned", "raised"}

SameSign == aq.inp.f_low * aq.inp.f_high > 0

OppositeSign == aq.inp.f_low * aq.inp.f_high < 0

EndpointZero == aq.inp.f_low = 0 \/ aq.inp.f_high = 0

\* C18 as stated: every call ends by returning a result whose solver field
\* is "bracket-bound" exactly when the residual is zero at a bracket end,
\* "bisection-charge-balance" exactly when the ends differ in sign, and
\* "quartic-fallback" whenever the ends have the same sign.
C18_SolverFieldAsStated ==
    AqEnded =>
        /\ aq.pc = "returned"
        /\ aq.solver \in {"bisection-charge-balance", "quartic-fallback", "bracket-bound"}
        /\ (aq.solver = "bracket-bound") = EndpointZero
        /\ (aq.solver = "bisection-charge-balance") = (~EndpointZero /\ OppositeSign)
        /\ (~EndpointZero /\ SameSign) => aq.solver = "quartic-fallback"

\* C18: a returned result names the path that produced its pH: a zero
\* residual at a bracket end gives "bracket-bound" and that end; ends of
\* opposite sign give "bisection-charge-balance" and a pH within the bracket;
\* ends of the same sign give "quartic-fallback" and the pH of the quartic
\* root alone when the quartic has an admissible root, and the call raises
\* ValueError when it has none (or numpy is missing).  Nothing else raises.
C18_SolverField ==
    AqEnded =>
        /\ EndpointZero =>
              /\ aq.pc = "returned" /\ aq.solver = "bracket-bound"
              /\ aq.ph_root = <<"grid", IF aq.inp.f_low = 0 THEN 0 ELSE AqWidth>>
        /\ (~EndpointZero /\ OppositeSign) =>
              /\ aq.pc = "returned" /\ aq.solver = "bisection-charge-balance"
              /\ aq.ph_root[1] = "grid" /\ aq.ph_root[2] \in 0..AqWidth
              /\ aq.it \in 1..AqMaxIter
        /\ (~EndpointZero /\ SameSign /\ aq.inp.np /\ aq.inp.nroots > 0) =>
              /\ aq.pc = "returned" /\ aq.solver = "quartic-fallback"
              /\ aq.ph_root = <<"-log10(quartic)">> /\ aq.it = 0
        /\ (~EndpointZero /\ SameSign /\ ~(aq.inp.np /\ aq.inp.nroots > 0)) =>
              /\ aq.pc = "raised" /\ aq.err = "ValueError" /\ aq.solver = ""

\* a call whose bracket ends had the same sign returned the quartic root
C18_Witness ==
    /\ aq.pc = "returned" /\ SameSign /\ aq.solver = "quartic-fallback"
    /\ aq.ph_root = <<"-log10(quartic)">>

\* a call whose bracket ends had the same sign found no quartic root
C18_Raised == aq.pc = "raised" /\ SameSign /\ ~aq.inp.np

\* a bisection that took several passes returned
C18_Bisected ==
    aq.pc = "returned" /\ aq.solver = "bisection-charge-balance" /\ aq.it >= 3

ZeroCarbonReturned == aq.pc = "returned" /\ aq.inp.ct <= 0

CarbonSpeciesZero ==
    /\ aq.species.H2CO3 = <<"0">>
    /\ aq.species.HCO3 = <<"0">>
    /\ aq.species.CO3 = <<"0">>

\* C19 as stated: a solve with zero or negative total carbon never divides
\* by zero, returns every carbon-species concentration as exactly 0, and
\* returns the alpha fractions {a0: 1, a1: 0, a2: 0}.
C19_ZeroCarbonBoundary ==
    ZeroCarbonReturned =>
        /\ "zero" \notin aq.divs
        /\ CarbonSpeciesZero
        /\ aq.alpha = [a0 |-> <<"1">>, a1 |-> <<"0">>, a2 |-> <<"0">>]

\* the part of C19 that the code keeps: no division by zero in any call, and
\* with zero or negative total carbon the three carbon species are exactly 0;
\* the alpha fractions are those of the solved [H+] whatever the carbon is
C19_NoDivisionZeroSpecies ==
    /\ "zero" \notin aq.divs
    /\ ZeroCarbonReturned =>
          /\ aq.ct = 0
          /\ CarbonSpeciesZero
          /\ aq.alpha = alpha_fractions_from_h(aq.ph_root, aq.inp.ka1,
                              aq.inp.h_zero /\ aq.solver = "bisection-charge-balance")

\* a call with negative total carbon and the default ka1 returned by bisection
C19_NegativeCarbon ==
    /\ ZeroCarbonReturned /\ aq.inp.ct < 0 /\ aq.inp.ka1 > 0
    /\ aq.solver = "bisection-charge-balance" /\ aq.alpha.a0[1] = "h^2/denom"

\* a call where the guard on denom acted: [H+] underflowed and ka1 = 0
C19_GuardActed ==
    /\ ZeroCarbonReturned /\ aq.inp.h_zero /\ aq.inp.ka1 = 0

----------------------------------------------------------------------------
(* Adaptive refresh routing *)

Decided == gui.pc = "decided"

\* the change of a layer, from the arguments of the call: its dirty flag is
\* set (or the flags are missing), or its signature differs from the baseline
LayerChanged(l) ==
    \/ gui.args.baseline = NoBaseline
    \/ gui.args.flags = NotADict
    \/ gui.args.flags[l]
    \/ gui.args.current[l] # gui.args.baseline[l]

AnyChanged == \E l \in Layers : LayerChanged(l)

C20_InPlace ==
    /\ Decided /\ gui.decision.path = "in_place_display_apply"
    /\ LayerChanged("elements") /\ ~LayerChanged("layout")

\* a call with nothing changed was revealed without a refresh
C20_NoChange == Decided /\ gui.decision.path = "no_change_fast_reveal"

----------------------------------------------------------------------------
(* Properties of the plot refresh *)

StepsOf(run) == {run.steps[i] : i \in 1..Len(run.steps)}

\* the regression harness: a rendered fig1 tab whose decision is the
\* no-change fast reveal and whose fast path completes
RegressionRun ==
    force_plot_refresh([TabIdle EXCEPT !.flags = Clean, !.baseline = Bundle1],
                       "request", FALSE,
                       [fast |-> "ok", widget |-> TRUE, render_raises |-> FALSE]).call

\* C21: a run of _force_plot_refresh whose fast path reports that it was
\* executed returns at once: it does no step of the full pipeline (no
\* cleared combined state, no geometry wait, no legend capture, no canvas
\* display refresh, no render snapshot, no core or combined render start);
\* a run does the pipeline only when the fast path returned False or raised;
\* and so it is in the regression harness.
C21_FastPathShortCircuit ==
    /\ ui.call.fast = "true" => StepsOf(ui.call) \cap PipelineSteps = {}
    /\ StepsOf(ui.call) \cap PipelineSteps # {} => ui.call.fast \in {"false", "raised"}
    /\ RegressionRun.fast = "true"
    /\ "refresh_canvas_display" \notin StepsOf(RegressionRun)

\* a fast path was executed on a combined tab whose widget has no usable
\* size: the run ended there, with no geometry wait
C21_Witness ==
    /\ ui.call.fast = "true"
    /\ ui.plot_key = "fig_combined"
    /\ ~ui.usable
    /\ ~ui.wait
    /\ "execute_adaptive_path" \in StepsOf(ui.call)

\* the pipeline ran after a fast path that returned False, and after one
\* that raised
C21_PipelineAfterFalse ==
    /\ ui.call.fast = "false"
    /\ ui.call.path = "in_place_display_apply"
    /\ "start_core_render" \in StepsOf(ui.call)

C21_PipelineAfterRaise ==
    /\ ui.call.fast = "raised"
    /\ "install_geometry_wait" \in StepsOf(ui.call)

\* a run resumed from a geometry wait got to the snapshot and the render start
RenderReached ==
    /\ ui.call.by \in {"ready", "timeout"}
    /\ "capture_snapshot" \in StepsOf(ui.call)

\* a run resumed from a geometry wait was completed by a fast path
ResumedFast == ui.call.by \in {"ready", "timeout"} /\ ui.call.fast = "true"

\* C22: a combined refresh deferred for widget geometry always makes
\* progress: whether or not the widget ever reports a usable size, a run
\* resumed from the wait (by the ready signal or by the 350 ms timeout)
\* eventually reaches the snapshot and render start, or is completed by a
\* fast path.
C22_DeferredRefreshProgresses == ui.wait ~> (RenderReached \/ ResumedFast)

\* the timeout fired with the widget still too small, and the resumed run
\* installed the geometry wait again instead of rebuilding the figure
C22_WaitsAgainAfterTimeout ==
    /\ ui.call.by = "timeout"
    /\ ~ui.usable
    /\ ui.wait
    /\ "install_geometry_wait" \in StepsOf(ui.call)
    /\ "refresh_canvas_display" \notin StepsOf(ui.call)

\* the part that holds: a probe that finds a usable size ends the wait at
\* once and queues the re-entry
C22_ResumesWhenUsable ==
    [][(ui.wait /\ ui'.usable /\ (Configure \/ (RunIdle /\ Head(ui.idle).k = "signal"
                                                     /\ Head(ui.idle).live)))
         => (~ui'.wait /\ ~ui'.timer
             /\ ui'.idle[Len(ui'.idle)].k = "reenter"
             /\ ui'.idle[Len(ui'.idle)].reason = "ready")]_vars

\* and a wait whose widget ends up usable for good does make progress
C22_ProgressIfEventuallyUsable ==
    (<>[]ui.usable) => (ui.wait ~> (RenderReached \/ ResumedFast))

----------------------------------------------------------------------------
(* Properties of the root finder's scan and bracket *)

\* the scanned points whose residual is exactly zero
ZeroPoints(f) == {i \in 0..(NScan - 1) : Sign(f, ScanX(i)) = 0}

\* the adjacent scan intervals whose endpoint residuals have opposite signs
SignChanges(f) ==
    {i \in 0..(NScan - 2) : Sign(f, ScanX(i)) * Sign(f, ScanX(i + 1)) < 0}

\* C23: _find_root_bisect_on_log10 raises the bracketing error only when the
\* scan exposes no root: with a residual of exactly zero at any of the 240
\* scanned points (the first and the last included), or with strictly
\* opposite signs at two adjacent scanned points, the call returns.
C23_RaisesOnlyWithoutRoot ==
    /\ rf.pc = "raised" => ZeroPoints(fun) = {} /\ SignChanges(fun) = {}
    /\ (RootTerminated(rf) /\ (ZeroPoints(fun) # {} \/ SignChanges(fun) # {}))
          => rf.pc = "returned"

\* the residual is zero at the last scanned point only, with one sign before
\* it, and the call raised
C23_LastPointZeroRaised ==
    /\ rf.pc = "raised"
    /\ ZeroPoints(fun) = {NScan - 1}
    /\ SignChanges(fun) = {}

\* what holds: a zero at any scanned point but the last, or a sign change,
\* makes the call return, and a call that raised saw neither
C23_RaisesWithoutRootBeforeLast ==
    /\ rf.pc = "raised" => ZeroPoints(fun) \subseteq {NScan - 1} /\ SignChanges(fun) = {}
    /\ (RootTerminated(rf) /\ (ZeroPoints(fun) \ {NScan - 1} # {} \/ SignChanges(fun) # {}))
          => rf.pc = "returned"

\* a zero at the first scanned point made the call return
C23_FirstPointZeroReturned ==
    /\ rf.pc = "returned"
    /\ 0 \in ZeroPoints(fun)
    /\ rf.ret = ScanX(0)

\* the state is inside or after the bisection of the first sign change
Bracketed == rf.pc = "bisect" \/ (rf.pc = "returned" /\ rf.k > 0)

\* the returned value is in [lo, hi]; it is the first scanned point with
\* zero residual, or a point of the first scan interval with a sign change;
\* the bracket stays inside that interval with f(a) * f(b) <= 0
ReturnedInRange ==
    /\ rf.pc = "returned" =>
          /\ rf.ret \in ScanX(0)..LastX
          /\ \/ ZeroPoints(fun) # {} /\ rf.ret = ScanX(Min(ZeroPoints(fun)))
             \/ /\ SignChanges(fun) # {}
                /\ rf.ret \in ScanX(Min(SignChanges(fun)))..ScanX(Min(SignChanges(fun)) + 1)
    /\ Bracketed =>
          /\ SignChanges(fun) # {}
          /\ ScanX(Min(SignChanges(fun))) <= rf.a
          /\ rf.a <= rf.b
          /\ rf.b <= ScanX(Min(SignChanges(fun)) + 1)
          /\ rf.fa = Sign(fun, rf.a)
          /\ rf.fb = Sign(fun, rf.b)
          /\ rf.fa * rf.fb <= 0

BisectionStep == rf.pc = "bisect" /\ rf'.pc = "bisect" /\ rf'.k = rf.k + 1

\* C24 as stated: a returned value lies in [lo, hi] and is the first zero
\* scan point or a point of the first sign-change interval; through the 90
\* bisection steps the bracket stays inside that interval, keeps
\* f(a) * f(b) <= 0, and halves in width at each step.
C24_BracketHalvesEachStep ==
    /\ []ReturnedInRange
    /\ [][BisectionStep => 2 * (rf'.b - rf'.a) = rf.b - rf.a]_vars

\* C24, amended: the same, but at each step the bracket becomes half as wide
\* to within one representable value, and never wider; it stops shrinking
\* once its ends are adjacent representable values.
C24_BracketShrinks ==
    /\ []ReturnedInRange
    /\ [][BisectionStep =>
            /\ rf'.b - rf'.a <= (rf.b - rf.a + 1) \div 2
            /\ rf.a <= rf'.a
            /\ rf'.b <= rf.b]_vars

\* the 90 steps were run on a bracket in the second scan interval and the
\* call returned a point of it
C24_Witness ==
    /\ rf.pc = "returned"
    /\ rf.k = BisectSteps
    /\ Min(SignChanges(fun)) = 1
    /\ rf.ret \in ScanX(1)..ScanX(2)
    /\ rf.b - rf.a <= 1

\* the call returned the first zero scan point
C24_ZeroPointReturned ==
    /\ rf.pc = "returned"
    /\ rf.k = 0
    /\ rf.ret = ScanX(1)
    /\ Min(ZeroPoints(fun)) = 1

----------------------------------------------------------------------------
(* Termination of simulate_mode_absorbed *)

AbsorbedEnded == sim.pc \in {"returned", "raised"}

\* C25: simulate_mode_absorbed terminates for every finite total_CO2_g and
\* every step_g, zero and negative steps included: a call that has started
\* returns its rows (or ends with the solver's error).
C25_AbsorbedTerminates == (sim.pc = "running") ~> AbsorbedEnded

\* the loop has made passes with a step of 0 and is where it started
C25_ZeroStepStays ==
    /\ sim.pc = "running"
    /\ sim.step = 0
    /\ sim.g = 0
    /\ sim.out # <<>>

\* the loop has made passes with a negative step and g is below 0
C25_NegativeStepRecedes ==
    /\ sim.pc = "running"
    /\ sim.step < 0
    /\ sim.g < 0
    /\ sim.g <= sim.total

\* what holds: with a positive step, or a negative total, the call ends
C25_PositiveStepTerminates ==
    (sim.pc = "running" /\ (sim.step > 0 \/ sim.total < 0)) ~> AbsorbedEnded

----------------------------------------------------------------------------
(* The pressure-cycling rows and the Henry's-law constant *)

\* the runs of simulate_mode_cycles on the configuration of the simulation
\* at hand, for the least and the greatest Henry's-law constant
RunsOverKH ==
    {simulate_mode_cycles(env, params.store,
                          ConfigKH(sim.NaT_m, RawDn(sim), kh), sim.cycles) :
        kh \in {0, MaxKH}}

----------------------------------------------------------------------------
(* The pH of the pre-equivalence shortcut *)

\* a call with Na_total > 0 and 0 <= CT <= 0.5 * Na_total has returned
ShortcutReturned ==
    /\ sv.variant = "total_carbon"
    /\ sv.pc = "returned"
    /\ sv.NaT_m > 0
    /\ sv.req >= 0
    /\ 2 * sv.req <= sv.NaT_m

\* the returned pH is -log10(Kw / (gamma_OH * m_OH)) with m_OH the returned
\* hydroxide molality, which is positive
PHFromHydroxide ==
    /\ sv.pH = Term("-log10(KW/(gOH*mOH))", sv.CT_m, sv.NaT_m, 0, 0)
    /\ sv.comp["OH-"] = Num(sv.NaT_m - 2 * sv.CT_m)
    /\ sv.NaT_m - 2 * sv.CT_m > 0

\* C27: for every Na_total > 0 and every CT with 0 <= CT <= 0.5 * Na_total
\* the shortcut derives the returned pH from the hydroxide activity of the
\* composition it returns; the 1e-30 placeholder activity (pH = -16) is
\* never the basis of a returned pH.
C27_ShortcutPHFromHydroxide ==
    ShortcutReturned =>
        /\ PHFromHydroxide
        /\ sv.pH.k # "-log10(KW/1e-30)"

\* at CT = 0.5 * Na_total the returned hydroxide molality is 0 and the
\* returned pH is the placeholder's
C27_PlaceholderAtEquivalence ==
    /\ ShortcutReturned
    /\ 2 * sv.req = sv.NaT_m
    /\ sv.comp["OH-"] = Num(0)
    /\ sv.pH = Term("-log10(KW/1e-30)", 0, 0, 0, 0)

\* what holds: strictly below the equivalence point the pH is the hydroxide's
C27_BelowEquivalence ==
    (ShortcutReturned /\ 2 * sv.req < sv.NaT_m) =>
        /\ PHFromHydroxide
        /\ sv.pH.k # "-log10(KW/1e-30)"

C27_BelowEquivalenceReturned ==
    /\ ShortcutReturned
    /\ sv.req > 0
    /\ 2 * sv.req < sv.NaT_m

----------------------------------------------------------------------------
(* The carbon species of the general-case result *)

\* a call of solve_pH_for_total_carbon has returned from its outer loop
GeneralReturned ==
    /\ sv.variant = "total_carbon"
    /\ sv.pc = "returned"
    /\ sv.it >= 1
    /\ sv.CT_m > 0

\* the [H+] and the activity-coefficient snapshot a returned quantity was
\* computed from
Basis(t) == <<t.x, t.g>>

\* C28: the CO2, HCO3- and CO3-2 of the general-case result are derived from
\* the same [H+] and the same activity-coefficient snapshot, as parts of the
\* capped CT, and the returned pH is computed from that snapshot, whether
\* the outer loop converged or exhausted its budget.
C28_CarbonMassBalance ==
    GeneralReturned =>
        /\ sv.comp["CO2"] = Term("CT/(1+r1+r2)", sv.CT_m, sv.NaT_m, sv.g, sv.comp["H+"].x)
        /\ sv.comp["HCO3-"].k = "r1*mCO2"
        /\ sv.comp["CO3-2"].k = "r2*mCO2"
        /\ sv.comp["HCO3-"].c = sv.CT_m
        /\ sv.comp["CO3-2"].c = sv.CT_m
        /\ sv.CT_m = CapCT(sv.req, sv.NaT_m)
        /\ Basis(sv.comp["HCO3-"]) = Basis(sv.comp["CO2"])
        /\ Basis(sv.comp["CO3-2"]) = Basis(sv.comp["CO2"])
        /\ Basis(sv.pH) = Basis(sv.comp["CO2"])

\* a converged call returned CO2 of a later snapshot than its HCO3- and CO3-2
C28_ConvergedMixesSnapshots ==
    /\ GeneralReturned
    /\ sv.conv
    /\ sv.comp["CO2"].g = sv.comp["HCO3-"].g + 1
    /\ sv.comp["CO2"].g = sv.comp["CO3-2"].g + 1

\* and so did a call that used up its budget
C28_ExhaustedMixesSnapshots ==
    /\ GeneralReturned
    /\ ~sv.conv
    /\ sv.it = MaxIter
    /\ sv.comp["CO2"].g = sv.comp["HCO3-"].g + 1

\* what holds: the three species and the pH come from the same [H+] and the
\* same capped CT; HCO3- and CO3-2 share the snapshot the last root was found
\* under, CO2 and the pH share the snapshot computed after it
C28_SameRootTwoSnapshots ==
    GeneralReturned =>
        /\ sv.comp["CO2"] = Term("CT/(1+r1+r2)", sv.CT_m, sv.NaT_m, sv.g, sv.comp["H+"].x)
        /\ sv.comp["HCO3-"] =
              Term("r1*mCO2", sv.CT_m, sv.NaT_m, sv.g - 1, sv.comp["H+"].x)
        /\ sv.comp["CO3-2"] =
              Term("r2*mCO2", sv.CT_m, sv.NaT_m, sv.g - 1, sv.comp["H+"].x)
        /\ sv.pH = Term("-log10(gH*mH)", sv.CT_m, sv.NaT_m, sv.g, sv.comp["H+"].x)
        /\ sv.CT_m = CapCT(sv.req, sv.NaT_m)

====
